---- MODULE Spec2Model ----
(***************************************************************************)
(* VerifAI: the task graph of create_graph (two entry nodes, narrative     *)
(* extractor, verifier), its four stages and the classification variants.  *)
(*                                                                         *)
(* Probabilities, scores and thresholds are integers in hundredths         *)
(* (0.15 is 15, 1.0 is 100).  A Python dict is a function whose DOMAIN is  *)
(* the set of its keys; dict.get(k, d) is DictGet.  Text is a sequence of  *)
(* characters where the code inspects it (content) and a string otherwise. *)
(***************************************************************************)
EXTENDS Integers, Sequences, FiniteSets, TLC

VARIABLES pc, graph, clients, log_dir, state, step, tasks, done, writes, log, calls, hist, writers

vars == <<pc, graph, clients, log_dir, state, step, tasks, done, writes, log, calls, hist, writers>>

-----------------------------------------------------------------------------
(* Bounds *)

MaxContentLen == 1
MaxResults == 2

-----------------------------------------------------------------------------
(* Python helpers *)

DictGet(d, k, default) == IF k \in DOMAIN d THEN d[k] ELSE default

Max(a, b) == IF a >= b THEN a ELSE b
Min(a, b) == IF a <= b THEN a ELSE b

RECURSIVE SeqsUpTo(_, _)
SeqsUpTo(S, n) ==
  IF n = 0 THEN {<<>>}
  ELSE LET shorter == SeqsUpTo(S, n - 1)
       IN  shorter \cup {Append(s, x) : s \in {t \in shorter : Len(t) = n - 1}, x \in S}

RECURSIVE Filter(_, _)
Filter(s, S) ==
  IF s = <<>> THEN <<>>
  ELSE IF Head(s) \in S THEN <<Head(s)>> \o Filter(Tail(s), S)
       ELSE Filter(Tail(s), S)

Range(s) == {s[i] : i \in DOMAIN s}

Whitespace == {" "}

RECURSIVE LStrip(_)
LStrip(s) ==
  IF s # <<>> /\ Head(s) \in Whitespace THEN LStrip(Tail(s)) ELSE s

RECURSIVE RStrip(_)
RStrip(s) ==
  IF s # <<>> /\ s[Len(s)] \in Whitespace THEN RStrip(SubSeq(s, 1, Len(s) - 1)) ELSE s

Strip(s) == RStrip(LStrip(s))

\* the test without the trimming
BlankUntrimmed(content) == content = <<>>

\* `not content.strip()`
Blank(content) == Strip(content) = <<>>

-----------------------------------------------------------------------------
(* JSON values as the stages see them: a type tag, a boolean (for bool),   *)
(* a number (for num) and the elements (of a list of strings) or the words *)
(* (of a string).                                                          *)

JNull == [t |-> "null", b |-> FALSE, n |-> 0, items |-> <<>>]
JBool(x) == [t |-> "bool", b |-> x, n |-> 0, items |-> <<>>]
JNum(x) == [t |-> "num", b |-> FALSE, n |-> x, items |-> <<>>]
JStr(words) == [t |-> "str", b |-> FALSE, n |-> 0, items |-> words]
JList(xs) == [t |-> "list", b |-> FALSE, n |-> 0, items |-> xs]
\* a list with an element that is not a string
JListOther(xs) == [t |-> "list_other", b |-> FALSE, n |-> 0, items |-> xs]

\* len(v) raises TypeError unless v is sized
HasLen(v) == v.t \in {"str", "list", "list_other"}

-----------------------------------------------------------------------------
(* The technique vocabulary and the scoring backends *)

VALID_TECHNIQUES ==
  <<"emotional_manipulation", "fear_appeals", "bandwagon_effect", "selective_truth", "cliche">>

MODELS ==
  [x \in {"lapa-llm", "modern-bert"} |->
     IF x = "lapa-llm" THEN [type |-> "binary", default_threshold |-> 50]
     ELSE [type |-> "multilabel", default_threshold |-> 15]]

LABEL_MAPPING ==
  [x \in {"LABEL_0", "LABEL_1", "LABEL_2", "LABEL_3", "LABEL_4"} |->
     CASE x = "LABEL_0" -> "emotional_manipulation"
       [] x = "LABEL_1" -> "fear_appeals"
       [] x = "LABEL_2" -> "bandwagon_effect"
       [] x = "LABEL_3" -> "selective_truth"
       [] x = "LABEL_4" -> "cliche"]

\* manipulation_classifier.THRESHOLD and manipulation_classifier_lora.THRESHOLD
THRESHOLD == 50
LORA_THRESHOLD == 15

\* the cutoff the verifier's fallback compares the probability with
VERIFIER_THRESHOLD == 15

-----------------------------------------------------------------------------
(* The clients the process holds at module level, by the number of times   *)
(* each was constructed                                                     *)

\* the modules that hold a Gemini client of their own in _client
GeminiModules ==
  {"manipulation_classifier", "narrative_extractor", "fact_checker", "verifier"}

\* no client constructed yet: every _client is None and _pipelines is {}
Unbuilt ==
  [gemini |-> [m \in GeminiModules |-> 0],
   pipelines |-> [k \in DOMAIN MODELS |-> 0],
   perplexity |-> 0]

-----------------------------------------------------------------------------
(* The metrics sink: the directory "logs" of the working directory and the *)
(* metrics file in it. log holds the events handed to the logger.          *)

\* the directory can be created and written, or the file can be opened but
\* no write succeeds (disk full), or the directory cannot be created
LogDirs == {"writable", "full", "read_only"}

\* MetricsLogger.__init__: log_dir.mkdir(exist_ok=True) and FileHandler(metrics_file)
MetricsLoggerRaises(dir) == dir = "read_only"

\* the lines of the metrics file: logging appends one line per event and
\* swallows the error of a write that fails
MetricsFile(dir, events) == IF dir = "writable" THEN events ELSE <<>>

-----------------------------------------------------------------------------
(* What a node hands back: its partial state update, the metrics events it *)
(* emitted in call order, and the backend calls it made.                   *)

Event(fn, stepName, cid, err) ==
  [fn |-> fn, step |-> stepName, content_id |-> cid, error |-> err]

NodeResult(update, events, gen, score, search) ==
  [update |-> update, events |-> events, gen |-> gen, score |-> score, search |-> search]

ContentId(st) == DictGet(st, "content_id", "unknown")

Content(st) == DictGet(st, "content", <<>>)

\* a content that is not a string (None): it has no strip(), and the test
\* `not content.strip()` that opens every stage raises AttributeError
NotAString == <<"None">>

HasStrip(content) == content # NotAString

-----------------------------------------------------------------------------
(* Outcomes of one backend call *)

Raise(err) == [kind |-> "raise", err |-> err]

\* get_gemini_client raises before any call is made
NoClient == [kind |-> "no_client", err |-> "GEMINI_API_KEY environment variable is required"]

Failed(o) == o.kind \in {"raise", "no_client"}

\* generation calls made for an outcome
GenCalls(o) == IF o.kind = "no_client" THEN 0 ELSE 1

Errors == {"timeout"}

\* the characters before and after the payload in a generated text;
\* "abc" stands for three trailing characters that are not a code fence
\* "fence_json" and "fence" are a Markdown code fence (three backquotes), with
\* and without the word json
Prefixes == {"", "fence_json", "fence"}
Suffixes == {"", "fence", "abc"}

GenText(pre, body, suf) == [kind |-> "text", pre |-> pre, body |-> body, suf |-> suf]

Garbage == [kind |-> "garbage", len |-> 0, v |-> JNull, fields |-> <<>>]
Scalar(v) == [kind |-> "scalar", len |-> IF v.t = "num" THEN v.n ELSE 1, v |-> v, fields |-> <<>>]
NonDict(v) == [kind |-> "nondict", len |-> 0, v |-> v, fields |-> <<>>]
Dict(fields) == [kind |-> "dict", len |-> 0, v |-> JNull, fields |-> fields]

-----------------------------------------------------------------------------
(* manipulation_classifier_binary *)

ClassifierDefaults ==
  [is_manipulation |-> FALSE, manipulation_score |-> 0,
   manipulation_probability |-> 0, manipulation_techniques |-> <<>>]

ModelKey(st) == DictGet(st, "_manipulation_model", "lapa-llm")

ActiveThreshold(st) ==
  IF "_manipulation_threshold" \in DOMAIN st THEN st["_manipulation_threshold"]
  ELSE IF ModelKey(st) \in DOMAIN MODELS THEN MODELS[ModelKey(st)].default_threshold
       ELSE 50

\* label.lower()
Lower(label) ==
  CASE label = "NOT_MANIPULATIVE" -> "not_manipulative"
    [] label = "Manipulative" -> "manipulative"
    [] OTHER -> label

\* "not" in label or "non" in label or label == "0"
NegativeLabel(label) ==
  \/ label \in {"not_manipulative", "non-manipulative"}
  \/ label = "0"

\* the first score taken as it comes, whatever its label
BinaryScoreRaw(results) ==
  IF results = <<>> THEN 0
  ELSE DictGet(Head(results), "score", 0)

BinaryScore(results) ==
  IF results = <<>> THEN 0
  ELSE LET result == Head(results)
           raw == DictGet(result, "score", 0)
       IN  IF NegativeLabel(Lower(DictGet(result, "label", ""))) THEN 100 - raw ELSE raw

\* every category listed, whatever its score
MultiLabelScanAll(results, threshold, score, techniques) ==
  [score |-> IF results = <<>> THEN score ELSE DictGet(results[1], "score", 0),
   techniques |->
     techniques \o [k \in DOMAIN results |-> DictGet(results[k], "label", "unknown")]]

RECURSIVE MultiLabelScan(_, _, _, _)
MultiLabelScan(results, threshold, score, techniques) ==
  IF results = <<>> THEN [score |-> score, techniques |-> techniques]
  ELSE LET result == Head(results)
           s == DictGet(result, "score", 0)
           raw_label == DictGet(result, "label", "unknown")
           readable_label == DictGet(LABEL_MAPPING, raw_label, raw_label)
       IN  MultiLabelScan(Tail(results), threshold, Max(score, s),
                          IF s > threshold THEN Append(techniques, readable_label)
                          ELSE techniques)

\* manipulation_score >= threshold, read the other way round
IsManipulationBelow(score, threshold) == score <= threshold

\* is_manipulation = manipulation_score >= threshold
IsManipulation(score, threshold) == score >= threshold

\* the except branch that returns the defaults and logs nothing
ClassifierFailedSilently(cid, err, called) ==
  NodeResult(ClassifierDefaults, <<>>, 0, IF called THEN 1 ELSE 0, 0)

\* the except branch: the error is logged and the safe defaults returned
ClassifierFailed(cid, err, called) ==
  NodeResult(ClassifierDefaults,
             <<Event("log_step", "manipulation_classifier_binary", cid, err)>>,
             0, IF called THEN 1 ELSE 0, 0)

\* o: what get_classifier_pipeline and the pipeline call do
\*   "load_error"  the pipeline cannot be constructed
\*   "raise"       the pipeline call raises
\*   "nested"      a list whose first element is not a dict
\*   "results"     a list of dicts with optional keys label and score
manipulation_classifier_binary(st, o) ==
  LET content == Content(st)
      cid == ContentId(st)
      threshold == ActiveThreshold(st)
      known == ModelKey(st) \in DOMAIN MODELS
      failed(called) ==
        ClassifierFailed(cid, IF known THEN o.err ELSE "Unknown model key", called)
  IN  IF Blank(content)
      THEN NodeResult(ClassifierDefaults,
                      <<Event("log_classification", "manipulation_classifier", cid, "")>>,
                      0, 0, 0)
      ELSE IF ~known \/ o.kind = "load_error" THEN failed(FALSE)
      ELSE IF o.kind \in {"raise", "nested"} THEN failed(TRUE)
      ELSE LET scan == IF MODELS[ModelKey(st)].type = "binary"
                       THEN [score |-> BinaryScore(o.results), techniques |-> <<>>]
                       ELSE MultiLabelScan(o.results, threshold, 0, <<>>)
           IN  NodeResult([is_manipulation |-> IsManipulation(scan.score, threshold),
                           manipulation_score |-> scan.score,
                           manipulation_probability |-> scan.score,
                           manipulation_techniques |-> scan.techniques],
                          <<Event("log_classification", "manipulation_classifier", cid, "")>>,
                          0, 1, 0)

-----------------------------------------------------------------------------
(* manipulation_classifier (prompt-based) and manipulation_classifier_lora *)

\* the text json.loads is given: a leading fence is cut off, a trailing one
\* only when the text ends with it, anything else stays in the text
ClassifierUnfence(o) ==
  IF o.suf = "" \/ (o.pre # "" /\ o.suf = "fence") THEN o.body ELSE Garbage

\* float(s) of a string
NumericStrings == {<<"0.9">>}
FloatOfStr(words) == IF words = <<"0.9">> THEN 90 ELSE 0

\* float(classification_result.get("manipulation_probability", 0.0)):
\* "ok" with a value, "ValueError" or "TypeError"
PayloadProbability(fields) ==
  LET v == DictGet(fields, "manipulation_probability", JNum(0))
  IN  CASE v.t = "num" -> [r |-> "ok", p |-> v.n]
        [] v.t = "bool" -> [r |-> "ok", p |-> IF v.b THEN 100 ELSE 0]
        [] v.t = "str" -> IF v.items \in NumericStrings
                          THEN [r |-> "ok", p |-> FloatOfStr(v.items)]
                          ELSE [r |-> "ValueError", p |-> 0]
        [] OTHER -> [r |-> "TypeError", p |-> 0]

Clamp(p) == Max(0, Min(100, p))

PayloadTechniques(fields) ==
  LET raw_techniques == DictGet(fields, "manipulation_techniques", JList(<<>>))
  IN  IF raw_techniques.t \in {"list", "list_other"}
      THEN Filter(raw_techniques.items, Range(VALID_TECHNIQUES))
      ELSE <<>>

\* the parse that keeps the techniques below the threshold
ParseClassificationKeeps(o, threshold) ==
  LET body == ClassifierUnfence(o)
      prob == PayloadProbability(body.fields)
  IN  CASE body.kind = "garbage" -> [r |-> "fallback", p |-> 0, techniques |-> <<>>]
        [] body.kind \in {"scalar", "nondict"} -> [r |-> "error", p |-> 0, techniques |-> <<>>]
        [] prob.r = "ValueError" -> [r |-> "fallback", p |-> 0, techniques |-> <<>>]
        [] prob.r = "TypeError" -> [r |-> "error", p |-> 0, techniques |-> <<>>]
        [] OTHER -> [r |-> "ok", p |-> Clamp(prob.p),
                     techniques |-> PayloadTechniques(body.fields)]

\* the parse that reports the probability as the payload gives it
ParseClassificationUnclamped(o, threshold) ==
  LET body == ClassifierUnfence(o)
      prob == PayloadProbability(body.fields)
  IN  CASE body.kind = "garbage" -> [r |-> "fallback", p |-> 0, techniques |-> <<>>]
        [] body.kind \in {"scalar", "nondict"} -> [r |-> "error", p |-> 0, techniques |-> <<>>]
        [] prob.r = "ValueError" -> [r |-> "fallback", p |-> 0, techniques |-> <<>>]
        [] prob.r = "TypeError" -> [r |-> "error", p |-> 0, techniques |-> <<>>]
        [] OTHER -> [r |-> "ok", p |-> prob.p,
                     techniques |-> IF prob.p < threshold THEN <<>>
                                    ELSE PayloadTechniques(body.fields)]

\* the try block around json.loads: "ok", "fallback" (the inner except) or
\* "error" (the exception reaches the outer except)
ParseClassification(o, threshold) ==
  LET body == ClassifierUnfence(o)
      prob == PayloadProbability(body.fields)
      p == Clamp(prob.p)
  IN  CASE body.kind = "garbage" -> [r |-> "fallback", p |-> 0, techniques |-> <<>>]
        [] body.kind \in {"scalar", "nondict"} -> [r |-> "error", p |-> 0, techniques |-> <<>>]
        [] prob.r = "ValueError" -> [r |-> "fallback", p |-> 0, techniques |-> <<>>]
        [] prob.r = "TypeError" -> [r |-> "error", p |-> 0, techniques |-> <<>>]
        [] OTHER -> [r |-> "ok", p |-> p,
                     techniques |-> IF p < threshold THEN <<>>
                                    ELSE PayloadTechniques(body.fields)]

PromptDefaults == [manipulation_probability |-> 0, manipulation_techniques |-> <<>>]

manipulation_classifier(st, o) ==
  LET cid == ContentId(st)
      classified == Event("log_classification", "manipulation_classifier", cid, "")
      parsed == ParseClassification(o, THRESHOLD)
  IN  IF Blank(Content(st)) THEN NodeResult(PromptDefaults, <<classified>>, 0, 0, 0)
      ELSE IF Failed(o)
      THEN NodeResult(PromptDefaults,
                      <<Event("log_step", "manipulation_classifier", cid, o.err)>>,
                      GenCalls(o), 0, 0)
      ELSE CASE parsed.r = "error" ->
                  NodeResult(PromptDefaults,
                             <<Event("log_step", "manipulation_classifier", cid, "TypeError")>>,
                             1, 0, 0)
             [] parsed.r = "fallback" ->
                  NodeResult(PromptDefaults,
                             <<Event("log_step", "manipulation_classifier", cid,
                                     "Failed to parse JSON response"), classified>>,
                             1, 0, 0)
             [] OTHER ->
                  NodeResult([manipulation_probability |-> parsed.p,
                              manipulation_techniques |-> parsed.techniques],
                             <<classified>>, 1, 0, 0)

\* Past the empty-content return both branches call logger.info, which
\* MetricsLogger does not have: the AttributeError reaches the outer except
\* before any text is generated or parsed.
manipulation_classifier_lora(st, o) ==
  LET cid == ContentId(st)
  IN  IF Blank(Content(st))
      THEN NodeResult(PromptDefaults,
                      <<Event("log_classification", "manipulation_classifier", cid, "")>>,
                      0, 0, 0)
      ELSE NodeResult(PromptDefaults,
                      <<Event("log_step", "manipulation_classifier_lora", cid,
                              "AttributeError")>>, 0, 0, 0)

-----------------------------------------------------------------------------
(* narrative_extractor *)

Plain(text) == [kind |-> "plain", text |-> text]

\* the fixed Ukrainian text of the failure narrative, in English
NarrativeFailedPrefix == "Cannot extract narrative because of error: "

NarrativeFailedNoText(cid, o) ==
  NodeResult([narrative |-> NarrativeFailedPrefix],
             <<Event("log_step", "narrative_extractor", cid, o.err)>>,
             GenCalls(o), 0, 0)

\* the except branch of narrative_extractor
NarrativeFailed(cid, o) ==
  NodeResult([narrative |-> NarrativeFailedPrefix \o o.err],
             <<Event("log_step", "narrative_extractor", cid, o.err)>>,
             GenCalls(o), 0, 0)

narrative_extractor(st, o) ==
  LET cid == ContentId(st)
  IN  IF Blank(Content(st))
      THEN NodeResult([narrative |-> ""],
                      <<Event("log_narrative_extraction", "narrative_extractor", cid, "")>>,
                      0, 0, 0)
      ELSE IF Failed(o)
      THEN NarrativeFailed(cid, o)
      ELSE NodeResult([narrative |-> o.text],
                      <<Event("log_narrative_extraction", "narrative_extractor", cid, "")>>,
                      1, 0, 0)

-----------------------------------------------------------------------------
(* fact_checker and perform_web_search *)

Take(s, n) == SubSeq(s, 1, Min(n, Len(s)))

SearchResult(url, snippet) == [url |-> url, snippet |-> snippet]

\* the adapter whose content-only result has no snippet
perform_web_search_no_snippet(query, num_results, so) ==
  IF so.kind # "ok" THEN <<>>
  ELSE IF so.citations # <<>>
       THEN [i \in 1..Min(num_results, Len(so.citations)) |->
               SearchResult(so.citations[i], so.content)]
       ELSE IF so.content # "" THEN <<[url |-> "perplexity_search"]>>
            ELSE <<>>

\* so: "no_key" (PERPLEXITY_API_KEY missing), "raise" (provider error),
\* "malformed" (a completion without choices, or without content although it
\* has citations: the exception is caught like the others) or
\* "ok" with the completion's citations and content ("" when there is none)
perform_web_search(query, num_results, so) ==
  IF so.kind # "ok" THEN <<>>
  ELSE IF so.citations # <<>>
       THEN [i \in 1..Min(num_results, Len(so.citations)) |->
               SearchResult(so.citations[i], so.content)]
       ELSE IF so.content # "" THEN <<SearchResult("perplexity_search", so.content)>>
            ELSE <<>>

\* [q.strip() for q in query_text.split('\n') if q.strip()]
RECURSIVE QueryLines(_)
QueryLines(lines) ==
  IF lines = <<>> THEN <<>>
  ELSE IF Strip(Head(lines)) # <<>> THEN <<Strip(Head(lines))>> \o QueryLines(Tail(lines))
       ELSE QueryLines(Tail(lines))

\* the loop over the queries: searches[q] is what the search provider does
\* when asked q
RECURSIVE SearchAll(_, _, _)
SearchAll(queries, searches, i) ==
  IF i > Len(queries) THEN <<>>
  ELSE perform_web_search(queries[i], 3, searches[queries[i]])
         \o SearchAll(queries, searches, i + 1)

UseCache(st) ==
  /\ DictGet(st, "_use_search_cache", FALSE)
  /\ "_cached_search_queries" \in DOMAIN st
  /\ "_cached_search_results" \in DOMAIN st

\* the fixed Ukrainian texts of the stage, in English
NoContentFacts == "No content to fact-check"
FactCheckFailedPrefix == "Fact-check failed with error: "

\* the failure output that also resets the narrative
FactCheckFailedResetsNarrative(cid, err, gen, search) ==
  NodeResult([search_queries |-> <<>>, search_results |-> <<>>, narrative |-> "",
              fact_check_results |-> FactCheckFailedPrefix \o err],
             <<Event("log_step", "fact_checker", cid, err)>>, gen, 0, search)

\* the failure output whose marker leaves the error out
FactCheckFailedNoText(cid, err, gen, search) ==
  NodeResult([search_queries |-> <<>>, search_results |-> <<>>,
              fact_check_results |-> FactCheckFailedPrefix],
             <<Event("log_step", "fact_checker", cid, err)>>, gen, 0, search)

FactCheckFailed(cid, err, gen, search) ==
  NodeResult([search_queries |-> <<>>, search_results |-> <<>>,
              fact_check_results |-> FactCheckFailedPrefix \o err],
             <<Event("log_step", "fact_checker", cid, err)>>, gen, 0, search)

\* o.queries: the query-generation call (its text is a sequence of lines),
\* o.searches: the search provider, o.synth: the synthesis call

\* the queries of a stage that generates them even when a cache is supplied
GeneratedQueriesAlways(st, o) ==
  IF Failed(o.queries) THEN <<>> ELSE QueryLines(o.queries.lines)

\* search_queries
GeneratedQueries(st, o) ==
  IF UseCache(st) THEN st["_cached_search_queries"]
  ELSE IF Failed(o.queries) THEN <<>> ELSE QueryLines(o.queries.lines)

\* the loop without its limit
SearchedQueriesAll(search_queries) == search_queries

\* search_queries[:3]
SearchedQueries(search_queries) == Take(search_queries, 3)

\* all_search_results
Evidence(st, o) ==
  IF UseCache(st) THEN st["_cached_search_results"]
  ELSE SearchAll(SearchedQueries(GeneratedQueries(st, o)), o.searches, 1)

\* the loop that issues a failed search a second time
SearchCallsRetrying(st, o) ==
  IF Blank(Content(st)) \/ UseCache(st) \/ Failed(o.queries) THEN <<>>
  ELSE LET searched == SearchedQueries(GeneratedQueries(st, o))
           issued == [i \in 1..Len(searched) |-> [query |-> searched[i], num_results |-> 3]]
           failed(c) == o.searches[c.query].kind # "ok"
       IN  issued \o SelectSeq(issued, failed)

\* the calls of perform_web_search, in call order
SearchCalls(st, o) ==
  IF Blank(Content(st)) \/ UseCache(st) \/ Failed(o.queries) THEN <<>>
  ELSE LET searched == SearchedQueries(GeneratedQueries(st, o))
       IN  [i \in 1..Len(searched) |-> [query |-> searched[i], num_results |-> 3]]

\* the query-generation prompt: the content, followed by the narrative
\* section when the narrative is a non-empty string
build_query_generation_prompt(content, narrative) ==
  [content |-> content,
   narrative_section |->
     IF narrative # "" THEN <<"Extracted narrative (if available): ", narrative>>
     ELSE <<>>]

\* what build_fact_check_analysis_prompt is given
FactCheckPrompt(st, o) ==
  [content |-> Content(st), search_queries |-> GeneratedQueries(st, o),
   search_results |-> Evidence(st, o)]

fact_checker(st, o) ==
  LET cid == ContentId(st)
      logged == Event("log_fact_checking", "fact_checker", cid, "")
      search_queries == GeneratedQueries(st, o)
      all_search_results == Evidence(st, o)
      gen1 == IF UseCache(st) THEN 0 ELSE GenCalls(o.queries)
      nsearch == Len(SearchCalls(st, o))
  IN  IF Blank(Content(st))
      THEN NodeResult([search_queries |-> <<>>, search_results |-> <<>>,
                       fact_check_results |-> NoContentFacts], <<logged>>, 0, 0, 0)
      ELSE IF ~UseCache(st) /\ Failed(o.queries)
      THEN FactCheckFailed(cid, o.queries.err, gen1, 0)
      ELSE IF Failed(o.synth)
      THEN FactCheckFailed(cid, o.synth.err, gen1 + GenCalls(o.synth), nsearch)
      ELSE NodeResult([search_queries |-> search_queries,
                       search_results |-> all_search_results,
                       fact_check_results |-> o.synth.text],
                      <<logged>>, gen1 + 1, 0, nsearch)

-----------------------------------------------------------------------------
(* verifier *)

RequiredKeys == {"manipulation", "techniques", "disinfo", "explanation"}

\* the fixed Ukrainian texts of the stage, in English
NoContentMarker == "No content provided for analysis"
AnalysisDone == "Analysis complete. Manipulation probability: "
VerificationErrors == "Verification finished with errors. Manipulation probability: "

\* f"{manipulation_probability:.3f}"
Format3f(p) == ToString(p \div 100) \o "." \o
               (IF p % 100 < 10 THEN "0" ELSE "") \o ToString(p % 100) \o "0"

NoContentVerdict ==
  [manipulation |-> JBool(FALSE), techniques |-> JList(<<>>), disinfo |-> JList(<<>>),
   explanation |-> JStr(<<NoContentMarker>>)]

\* the text with its last three characters cut off
Truncate(body) ==
  IF body.kind = "scalar" /\ body.v.t = "num" /\ body.len > 3
  THEN Scalar(JNum(body.len - 3))
  ELSE Garbage

\* response_text[7:-3] / response_text[3:-3]: after a leading fence the last
\* three characters go, whatever they are
VerifierUnfence(o) ==
  IF o.pre = "" THEN (IF o.suf = "" THEN o.body ELSE Garbage)
  ELSE IF o.suf = "" THEN Truncate(o.body) ELSE o.body

\* is_manipulation of both fallbacks
FallbackManipulation(probability, techniques) ==
  probability > VERIFIER_THRESHOLD /\ Len(techniques) > 0

FallbackVerdict(probability, techniques, explanation) ==
  [manipulation |-> JBool(FallbackManipulation(probability, techniques)),
   techniques |-> JList(techniques),
   disinfo |-> JList(<<>>),
   explanation |-> JStr(explanation)]

\* the validation that accepts a dict whatever its keys
ValidateVerdictAnyKeys(body) ==
  CASE body.kind = "scalar" -> "TypeError"
    [] body.kind = "nondict" ->
         IF RequiredKeys \subseteq Range(body.v.items) THEN "ok" ELSE "ValueError"
    [] OTHER -> "ok"

\* all(key in final_result for key in required_keys): "ok", "ValueError"
\* (a key is missing) or "TypeError" (the value is not a container)
ValidateVerdict(body) ==
  CASE body.kind = "scalar" -> "TypeError"
    [] body.kind = "nondict" ->
         IF RequiredKeys \subseteq Range(body.v.items) THEN "ok" ELSE "ValueError"
    [] OTHER -> IF RequiredKeys \subseteq DOMAIN body.fields THEN "ok" ELSE "ValueError"

\* log_verification: final_result.get("disinfo", []) and len() of it
LogVerificationRaises(body) ==
  \/ body.kind = "nondict"
  \/ ~HasLen(DictGet(body.fields, "disinfo", JList(<<>>)))

verifier(st, o) ==
  LET cid == ContentId(st)
      manipulation_probability == DictGet(st, "manipulation_probability", 0)
      manipulation_techniques == DictGet(st, "manipulation_techniques", <<>>)
      narrative == DictGet(st, "narrative", "")
      fact_check_results == DictGet(st, "fact_check_results", "")
      logged == Event("log_verification", "verifier", cid, "")
      body == VerifierUnfence(o)
      valid == ValidateVerdict(body)
      parse_fallback ==
        FallbackVerdict(manipulation_probability, manipulation_techniques,
                        <<AnalysisDone, Format3f(manipulation_probability),
                          narrative, fact_check_results>>)
      error_fallback(err) ==
        NodeResult([final_result |->
                      FallbackVerdict(manipulation_probability, manipulation_techniques,
                                      <<VerificationErrors,
                                        Format3f(manipulation_probability), err>>)],
                   <<Event("log_step", "verifier", cid, err)>>, GenCalls(o), 0, 0)
  IN  IF Blank(Content(st))
      THEN NodeResult([final_result |-> NoContentVerdict], <<logged>>, 0, 0, 0)
      ELSE IF Failed(o) THEN error_fallback(o.err)
      ELSE IF body.kind = "garbage" \/ valid = "ValueError"
      THEN NodeResult([final_result |-> parse_fallback], <<logged>>, 1, 0, 0)
      ELSE IF valid = "TypeError" THEN error_fallback("TypeError")
      ELSE IF LogVerificationRaises(body)
      THEN error_fallback(IF body.kind = "nondict" THEN "AttributeError" ELSE "TypeError")
      ELSE NodeResult([final_result |-> body.fields], <<logged>>, 1, 0, 0)

-----------------------------------------------------------------------------
(* invoke_with_logging: the end of a run *)

\* log_pipeline_complete takes len() of techniques and of disinfo
PipelineLogRaises(final_result) ==
  \/ ~HasLen(DictGet(final_result, "techniques", JList(<<>>)))
  \/ ~HasLen(DictGet(final_result, "disinfo", JList(<<>>)))

-----------------------------------------------------------------------------
(* Backend behaviours *)

GenFailures == {Raise(e) : e \in Errors} \cup {NoClient}

Fences == Prefixes \X Suffixes

GenTexts(bodies) == {GenText(f[1], b, f[2]) : f \in Fences, b \in bodies}

\* one element of the list a scoring pipeline returns
Entries(labels, scores) ==
  {[label |-> l, score |-> s] : l \in labels, s \in scores}
    \cup {[score |-> 90], [label |-> "LABEL_1"]}

ScoringOutcomes(labels, scores, n) ==
  {[kind |-> k, err |-> "timeout", results |-> <<>>] : k \in {"load_error", "raise", "nested"}}
    \cup {[kind |-> "results", err |-> "", results |-> rs] :
            rs \in SeqsUpTo(Entries(labels, scores), n)}

SearchFailures == {[kind |-> k, citations |-> <<>>, content |-> ""] : k \in {"no_key", "raise"}}

SearchOk(citations, content) == [kind |-> "ok", citations |-> citations, content |-> content]

QueryText(lines) == [kind |-> "lines", lines |-> lines]

-----------------------------------------------------------------------------
(* The graph of create_graph and its execution in supersteps: the nodes    *)
(* scheduled in a superstep read the state as it was when the superstep    *)
(* began, their updates are applied together when all of them have         *)
(* returned, and a node is scheduled for the next superstep by every edge  *)
(* that leaves a node of this one.                                         *)

Nodes == {"manipulation_classifier", "narrative_extractor", "fact_checker", "verifier"}

\* the four nodes in one chain, the fact-check after the narrative
EdgesChained ==
  { <<"START", "manipulation_classifier">>,
    <<"manipulation_classifier", "narrative_extractor">>,
    <<"narrative_extractor", "fact_checker">>,
    <<"fact_checker", "verifier">>,
    <<"verifier", "END">> }

Edges ==
  { <<"START", "manipulation_classifier">>,
    <<"START", "fact_checker">>,
    <<"manipulation_classifier", "narrative_extractor">>,
    <<"narrative_extractor", "verifier">>,
    <<"manipulation_classifier", "verifier">>,
    <<"fact_checker", "verifier">>,
    <<"verifier", "END">> }

Successors(ran) == {n \in Nodes : \E m \in ran : <<m, n>> \in Edges}

\* the declared upstream nodes of a node
Upstream(n) == {m \in Nodes : <<m, n>> \in Edges}

UUIDs == {"uuid-1"}

\* the fields of VerifaiState the stages write
OutputFields ==
  {"manipulation_probability", "manipulation_techniques", "is_manipulation",
   "manipulation_score", "narrative", "search_queries", "search_results",
   "fact_check_results", "final_result"}

\* an update that replaces the whole state
MergeReplaces(st, upd) == upd

\* dict.update: the keys of upd replace those of st
Merge(st, upd) == upd @@ st

RECURSIVE ApplyWrites(_, _)
ApplyWrites(st, ws) ==
  IF ws = <<>> THEN st ELSE ApplyWrites(Merge(st, Head(ws).update), Tail(ws))

\* two tasks of one superstep write the same key
Conflict(ws) ==
  \E i, j \in DOMAIN ws : i # j /\ DOMAIN ws[i].update \cap DOMAIN ws[j].update # {}

Written(ws) == UNION {{<<ws[i].node, f>> : f \in DOMAIN ws[i].update} : i \in DOMAIN ws}

-----------------------------------------------------------------------------
(* The inputs and backend behaviours of the graph runs explored *)

Empty == [k \in {} |-> 0]

Optional(k, values) == {Empty} \cup {k :> v : v \in values}

Contents == SeqsUpTo({" ", "x"}, MaxContentLen)

CachedQueries == << <<"q", "1">> >>
CachedResults == <<SearchResult("cached.example", "cached")>>

SearchCache ==
  { Empty,
    [_use_search_cache |-> TRUE, _cached_search_queries |-> CachedQueries,
     _cached_search_results |-> CachedResults] }

ClassifierConfigs ==
  {[g |-> [use_binary_classifier |-> FALSE], keys |-> Empty]}
    \cup {[g |-> [use_binary_classifier |-> TRUE], keys |-> m @@ t] :
            m \in Optional("_manipulation_model", {"modern-bert", "bogus"}),
            t \in {Empty}}

GraphScoring == ScoringOutcomes({"LABEL_1", "LABEL_9", "NOT_MANIPULATIVE"}, {5, 90}, 1)

GraphClassifierBodies ==
  { Garbage, Scalar(JNull),
    Dict([manipulation_probability |-> JNull]),
    Dict([manipulation_probability |-> JNum(10),
          manipulation_techniques |-> JList(<<"fear_appeals">>)]),
    Dict([manipulation_probability |-> JNum(90),
          manipulation_techniques |-> JList(<<"fear_appeals", "made_up">>)]) }

GraphNarratives == {Raise("timeout"), Plain("narrative")}

GraphFactChecks ==
  {[queries |-> q, searches |-> [query \in {<<"q">>} |-> so], synth |-> sy] :
     q \in {Raise("timeout"), QueryText(<< <<"q">>, <<" ">>, <<"q", " ">> >>)},
     so \in {[kind |-> "no_key", citations |-> <<>>, content |-> ""],
             SearchOk(<<"u1">>, "found")},
     sy \in {Raise("timeout"), Plain("facts")}}

Verdict(m, t, d, e) == [manipulation |-> m, techniques |-> t, disinfo |-> d, explanation |-> e]

\* well-typed payloads, payloads with one value of another type, payloads
\* with one key missing
VerifierDicts ==
  { Verdict(JBool(FALSE), JList(<<>>), JList(<<>>), JStr(<<"ok">>)),
    Verdict(JBool(FALSE), JList(<<>>), JList(<<"claim">>), JStr(<<"ok">>)),
    Verdict(JBool(TRUE), JList(<<"fear_appeals">>), JList(<<>>), JStr(<<"ok">>)),
    Verdict(JBool(TRUE), JList(<<>>), JList(<<>>), JStr(<<"ok">>)) }
    \cup { Verdict(JNull, JList(<<>>), JList(<<>>), JStr(<<"ok">>)),
           Verdict(JBool(FALSE), JNull, JList(<<>>), JStr(<<"ok">>)),
           Verdict(JBool(FALSE), JList(<<>>), JNull, JStr(<<"ok">>)),
           Verdict(JBool(FALSE), JStr(<<"fear_appeals">>), JListOther(<<>>), JNum(1)) }
    \cup {[k \in RequiredKeys \ {missing} |-> JList(<<>>)] : missing \in RequiredKeys}

VerifierBodies ==
  {Dict(d) : d \in VerifierDicts}
    \cup { Garbage, Scalar(JNum(7)), Scalar(JNum(12345)),
           NonDict(JList(<<>>)),
           NonDict(JList(<<"manipulation", "techniques", "disinfo", "explanation">>)),
           NonDict(JStr(<<"manipulation", "techniques", "disinfo", "explanation">>)) }

\* every body as a bare text; the fenced forms of a few
FencedVerifierBodies ==
  { Garbage, Scalar(JNum(7)), Scalar(JNum(12345)),
    Dict(Verdict(JBool(TRUE), JList(<<"fear_appeals">>), JList(<<>>), JStr(<<"ok">>))) }

GraphVerifications ==
  {Raise("timeout")}
    \cup {GenText("", body, "") : body \in VerifierBodies}
    \cup GenTexts(FencedVerifierBodies)

-----------------------------------------------------------------------------
(* A run of graph.invoke *)

Init ==
  /\ pc = "call"
  /\ \E cc \in ClassifierConfigs :
       /\ graph = cc.g
       /\ state \in {[content |-> c] @@ i @@ cc.keys :
                       c \in Contents \cup {NotAString},
                       i \in Optional("content_id", {"", "cid-1"})}
                     \cup {[content |-> c, content_id |-> "cid-1"] @@ cc.keys @@ sc :
                             c \in Contents, sc \in SearchCache}
  /\ step = 0
  /\ tasks = {}
  /\ done = {}
  /\ writes = <<>>
  /\ log = <<>>
  /\ calls = [gen |-> 0, score |-> 0, search |-> 0]
  /\ hist = <<>>
  /\ writers = {}
  /\ clients = Unbuilt
  /\ log_dir = "writable"

\* the executor that leaves the caller's content_id as it is
InvokeKeepsInput ==
  /\ pc = "call"
  /\ pc' = "running"
  /\ step' = 1
  /\ tasks' = Successors({"START"})
  /\ UNCHANGED <<graph, clients, log_dir, state, done, writes, log, calls, hist, writers>>

\* invoke_with_logging up to the call of the compiled graph's invoke:
\* get_logger() first, which raises when the log directory or the metrics
\* file cannot be created
Invoke ==
  /\ pc = "call"
  /\ IF MetricsLoggerRaises(log_dir)
     THEN /\ pc' = "raised"
          /\ UNCHANGED <<state, step, tasks>>
     ELSE /\ \E id \in UUIDs :
               state' = IF DictGet(state, "content_id", "") = ""
                        THEN [content_id |-> id] @@ state
                        ELSE state
          /\ pc' = "running"
          /\ step' = 1
          /\ tasks' = Successors({"START"})
  /\ UNCHANGED <<graph, clients, log_dir, done, writes, log, calls, hist, writers>>

\* one node of the current superstep runs to completion on the state the
\* superstep began with; r is what the node function returns
Execute(n, r) ==
  /\ pc = "running"
  /\ n \in tasks
  /\ HasStrip(Content(state))
  /\ tasks' = tasks \ {n}
  /\ done' = done \cup {n}
  /\ writes' = Append(writes, [node |-> n, update |-> r.update])
  /\ log' = log \o r.events
  /\ calls' = [gen |-> calls.gen + r.gen, score |-> calls.score + r.score,
               search |-> calls.search + r.search]
  /\ hist' = Append(hist, [node |-> n, step |-> step, completed |-> done,
                           saw |-> DOMAIN state \cap OutputFields,
                           narrative |-> DictGet(state, "narrative", "")])
  /\ UNCHANGED <<pc, graph, clients, log_dir, state, step, writers>>

RunClassifier ==
  \/ /\ graph.use_binary_classifier
     /\ \E o \in GraphScoring :
          Execute("manipulation_classifier", manipulation_classifier_binary(state, o))
  \/ /\ ~graph.use_binary_classifier
     /\ \E o \in GenFailures \cup GenTexts(GraphClassifierBodies) :
          Execute("manipulation_classifier", manipulation_classifier(state, o))

RunNarrative ==
  \E o \in GraphNarratives : Execute("narrative_extractor", narrative_extractor(state, o))

RunFactChecker ==
  \E o \in GraphFactChecks : Execute("fact_checker", fact_checker(state, o))

RunVerifier ==
  \E o \in GraphVerifications : Execute("verifier", verifier(state, o))

\* a node of the current superstep raises before its try block: the compiled
\* graph's invoke raises, invoke_with_logging logs the error and re-raises
StageRaises ==
  /\ pc = "running"
  /\ tasks # {}
  /\ ~HasStrip(Content(state))
  /\ pc' = "raised"
  /\ log' = Append(log, Event("log_step", "pipeline_complete", ContentId(state),
                              "AttributeError"))
  /\ UNCHANGED <<graph, clients, log_dir, state, step, tasks, done, writes, calls, hist, writers>>

\* the end of a superstep: the updates are applied and the next superstep's
\* nodes are scheduled; two updates of the same key are an InvalidUpdateError
Barrier ==
  /\ pc = "running"
  /\ tasks = {}
  /\ IF Conflict(writes)
     THEN /\ pc' = "raised"
          /\ log' = Append(log, Event("log_step", "pipeline_complete", ContentId(state),
                                      "InvalidUpdateError"))
          /\ UNCHANGED <<state, step, tasks, writers>>
     ELSE /\ state' = ApplyWrites(state, writes)
          /\ writers' = writers \cup Written(writes)
          /\ tasks' = Successors({writes[i].node : i \in DOMAIN writes})
          /\ step' = step + 1
          /\ pc' = IF tasks' = {} THEN "finished" ELSE "running"
          /\ UNCHANGED log
  /\ writes' = <<>>
  /\ UNCHANGED <<graph, clients, log_dir, done, calls, hist>>

\* the executor that returns the result without a pipeline event
CompleteUnlogged ==
  /\ pc = "finished"
  /\ pc' = "returned"
  /\ UNCHANGED <<graph, clients, log_dir, state, step, tasks, done, writes, log, calls, hist, writers>>

\* invoke_with_logging after the graph has run: the pipeline event, then
\* the result is returned, or the exception of the logging call re-raised
Complete ==
  /\ pc = "finished"
  /\ IF PipelineLogRaises(DictGet(state, "final_result", Empty))
     THEN /\ pc' = "raised"
          /\ log' = Append(log, Event("log_step", "pipeline_complete", ContentId(state),
                                      "TypeError"))
     ELSE /\ pc' = "returned"
          /\ log' = Append(log, Event("log_pipeline_complete", "pipeline_complete",
                                      ContentId(state), ""))
  /\ UNCHANGED <<graph, clients, log_dir, state, step, tasks, done, writes, calls, hist, writers>>

Next ==
  \/ Invoke
  \/ RunClassifier
  \/ RunNarrative
  \/ RunFactChecker
  \/ RunVerifier
  \/ StageRaises
  \/ Barrier
  \/ Complete

Spec == Init /\ [][Next]_vars

\* a run in which every step that can be taken is eventually taken: the
\* executor runs every scheduled node, and every backend call returns or
\* raises
SpecLive == Spec /\ WF_vars(Next)

-----------------------------------------------------------------------------
(* The classification variants on their own: every variant applied once to *)
(* an input state, under every backend behaviour                           *)

BackendLabels ==
  {"LABEL_1", "LABEL_9", "fear_appeals", "cliche", "NOT_MANIPULATIVE", "non-manipulative", "0"}
Scores == {5, 15, 90}
Thresholds == {15, 50, 90}

PayloadLabels == {"fear_appeals", "cliche", "made_up"}

PayloadProbabilities ==
  {JNum(p) : p \in {-20, 10, 50, 90, 150}}
    \cup {JStr(<<"0.9">>), JStr(<<"high">>), JNull, JBool(TRUE)}

PayloadTechniqueValues ==
  {JList(t) : t \in SeqsUpTo(PayloadLabels, MaxResults)}
    \cup {JStr(<<"fear_appeals">>), JListOther(<<"cliche">>)}

ClassifierBodies ==
  {Garbage, Scalar(JNum(7)), NonDict(JList(<<>>))}
    \cup {Dict(p @@ t) : p \in Optional("manipulation_probability", PayloadProbabilities),
                         t \in Optional("manipulation_techniques", PayloadTechniqueValues)}

ClassifierTexts == GenFailures \cup GenTexts(ClassifierBodies)

\* the LoRA client's behaviours
LoraTexts ==
  GenFailures \cup GenTexts({Garbage,
                              Dict([manipulation_probability |-> JNum(90),
                                    manipulation_techniques |-> JList(<<"fear_appeals">>)])})

ClassifierNodes ==
  {"manipulation_classifier_binary", "manipulation_classifier", "manipulation_classifier_lora"}

InitClassify ==
  /\ pc = "classify"
  /\ graph = [use_binary_classifier |-> TRUE]
  /\ state \in {[content |-> c, content_id |-> "cid-1"] @@ m @@ t :
                  c \in Contents,
                  m \in Optional("_manipulation_model", {"lapa-llm", "modern-bert", "bogus"}),
                  t \in Optional("_manipulation_threshold", Thresholds)}
  /\ step = 0
  /\ tasks = {}
  /\ done = {}
  /\ writes = <<>>
  /\ log = <<>>
  /\ calls = [gen |-> 0, score |-> 0, search |-> 0]
  /\ hist = <<>>
  /\ writers = {}
  /\ clients = Unbuilt
  /\ log_dir = "writable"

\* the stage function n is called on state, the backend behaves as o and
\* the function returns r
Classify(n, o, r) ==
  /\ pc = "classify"
  /\ pc' = "classified"
  /\ writes' = <<[node |-> n, update |-> r.update]>>
  /\ log' = r.events
  /\ calls' = [gen |-> r.gen, score |-> r.score, search |-> r.search]
  /\ hist' = <<[node |-> n, backend |-> o]>>
  /\ UNCHANGED <<graph, clients, log_dir, state, step, tasks, done, writers>>

ClassifyBinary ==
  /\ pc = "classify"
  /\ \E o \in ScoringOutcomes(BackendLabels, Scores, MaxResults) :
       Classify("manipulation_classifier_binary", o, manipulation_classifier_binary(state, o))

ClassifyPrompt ==
  /\ pc = "classify"
  /\ \E o \in ClassifierTexts :
       Classify("manipulation_classifier", o, manipulation_classifier(state, o))

ClassifyLora ==
  /\ pc = "classify"
  /\ \E o \in LoraTexts :
       Classify("manipulation_classifier_lora", o, manipulation_classifier_lora(state, o))

NextClassify ==
  \/ ClassifyBinary
  \/ ClassifyPrompt
  \/ ClassifyLora

SpecClassify == InitClassify /\ [][NextClassify]_vars

-----------------------------------------------------------------------------
(* The scoring-backend variant called twice on the same content, with the  *)
(* same backend behaviour, under two thresholds                             *)

ThresholdLabels == {"LABEL_1", "NOT_MANIPULATIVE"}

InitThreshold ==
  /\ pc = "first"
  /\ graph = [use_binary_classifier |-> TRUE]
  /\ state \in {[content |-> c, content_id |-> "cid-1"] @@ m @@ t :
                  c \in Contents,
                  m \in Optional("_manipulation_model", {"lapa-llm", "modern-bert", "bogus"}),
                  t \in Optional("_manipulation_threshold", Thresholds)}
  /\ step = 0
  /\ tasks = {}
  /\ done = {}
  /\ writes = <<>>
  /\ log = <<>>
  /\ calls = [gen |-> 0, score |-> 0, search |-> 0]
  /\ hist = <<>>
  /\ writers = {}
  /\ clients = Unbuilt
  /\ log_dir = "writable"

ClassifyFirst ==
  /\ pc = "first"
  /\ \E o \in ScoringOutcomes(ThresholdLabels, Scores, MaxResults) :
       LET r == manipulation_classifier_binary(state, o)
       IN  /\ writes' = <<[node |-> "manipulation_classifier_binary", update |-> r.update,
                            threshold |-> ActiveThreshold(state)]>>
           /\ log' = r.events
           /\ calls' = [gen |-> r.gen, score |-> r.score, search |-> r.search]
           /\ hist' = <<[node |-> "manipulation_classifier_binary", backend |-> o]>>
  /\ pc' = "second"
  /\ UNCHANGED <<graph, clients, log_dir, state, step, tasks, done, writers>>

\* the second call: the state differs in _manipulation_threshold only
ClassifySecond ==
  /\ pc = "second"
  /\ \E t \in Thresholds :
       LET st == [_manipulation_threshold |-> t] @@ state
           r == manipulation_classifier_binary(st, hist[1].backend)
       IN  /\ state' = st
           /\ writes' = Append(writes, [node |-> "manipulation_classifier_binary",
                                        update |-> r.update, threshold |-> t])
           /\ log' = log \o r.events
           /\ calls' = [gen |-> calls.gen + r.gen, score |-> calls.score + r.score,
                        search |-> calls.search + r.search]
  /\ pc' = "compared"
  /\ UNCHANGED <<graph, clients, log_dir, step, tasks, done, hist, writers>>

NextThreshold ==
  \/ ClassifyFirst
  \/ ClassifySecond

SpecThreshold == InitThreshold /\ [][NextThreshold]_vars

-----------------------------------------------------------------------------
(* The fact-check stage on its own: the stage is called on an input state, *)
(* and once more on the same input under another behaviour of the backends *)
(* (the experiment runs every message once per generation backend)         *)

\* the texts of the query-generation call, as lines
QueryLineTexts ==
  { <<>>,
    << <<"a">> >>,
    << <<" ", "b">>, <<" ">>, <<"a", " ">> >>,
    << <<"a">>, <<"a">> >>,
    << <<"a">>, <<"b">>, <<"c">>, <<"d">> >> }

Queries == {<<"a">>, <<"b">>, <<"c">>, <<"d">>}

RECURSIVE QueryName(_)
QueryName(q) == IF q = <<>> THEN "" ELSE Head(q) \o QueryName(Tail(q))

\* the i-th citation of the completion for query q
Citation(q, i) == QueryName(q) \o "/" \o ToString(i)

\* the number of citations of a completion
CitationCounts == {1, 4}

\* a search provider: what the completion call does for each query
Cited(n) == [q \in Queries |-> SearchOk([i \in 1..n |-> Citation(q, i)], "found")]

SearchProviders ==
  {Cited(n) : n \in CitationCounts}
    \cup { [q \in Queries |-> [kind |-> "no_key", citations |-> <<>>, content |-> ""]],
           [q \in Queries |-> SearchOk(<<>>, "found")],
           [q \in Queries |-> IF q = <<"b">>
                               THEN [kind |-> "raise", citations |-> <<>>, content |-> ""]
                               ELSE Cited(4)[q]] }

FactCheckBehaviours ==
  {[queries |-> q, searches |-> p, synth |-> sy] :
     q \in {Raise("timeout")} \cup {QueryText(l) : l \in QueryLineTexts},
     p \in SearchProviders,
     sy \in {Raise("timeout"), Plain("facts")}}

\* the cache keys of the input state
SearchCaches ==
  { Empty,
    [_use_search_cache |-> TRUE, _cached_search_queries |-> CachedQueries,
     _cached_search_results |-> CachedResults],
    [_use_search_cache |-> TRUE, _cached_search_queries |-> <<>>,
     _cached_search_results |-> <<>>],
    [_use_search_cache |-> FALSE, _cached_search_queries |-> CachedQueries,
     _cached_search_results |-> CachedResults],
    [_use_search_cache |-> TRUE] }

InitFactCheck ==
  /\ pc = "check"
  /\ graph = [use_binary_classifier |-> TRUE]
  /\ state \in {[content |-> c, content_id |-> "cid-1"] @@ sc :
                  c \in Contents, sc \in SearchCaches}
  /\ step = 0
  /\ tasks = {}
  /\ done = {}
  /\ writes = <<>>
  /\ log = <<>>
  /\ calls = [gen |-> 0, score |-> 0, search |-> 0]
  /\ hist = <<>>
  /\ writers = {}
  /\ clients = Unbuilt
  /\ log_dir = "writable"

\* fact_checker is called on state, the backends behave as o; the record of
\* the call holds its search calls and the synthesis prompt it built, if any
FactCheckCall(o) ==
  LET r == fact_checker(state, o)
  IN  /\ writes' = Append(writes, [node |-> "fact_checker", update |-> r.update,
                                   gen |-> r.gen,
                                   searched |-> SearchCalls(state, o),
                                   prompt |-> IF r.gen = 0 \/ (~UseCache(state) /\ Failed(o.queries))
                                              THEN <<>>
                                              ELSE <<FactCheckPrompt(state, o)>>])
      /\ log' = log \o r.events
      /\ calls' = [gen |-> calls.gen + r.gen, score |-> calls.score + r.score,
                   search |-> calls.search + r.search]
      /\ hist' = Append(hist, [node |-> "fact_checker", backend |-> o])
      /\ UNCHANGED <<graph, clients, log_dir, state, step, tasks, done, writers>>

FactCheck ==
  /\ pc = "check"
  /\ pc' = "checked"
  /\ \E o \in FactCheckBehaviours : FactCheckCall(o)

FactCheckAgain ==
  /\ pc = "checked"
  /\ pc' = "rechecked"
  /\ \E o \in FactCheckBehaviours : FactCheckCall(o)

NextFactCheck ==
  \/ FactCheck
  \/ FactCheckAgain

SpecFactCheck == InitFactCheck /\ [][NextFactCheck]_vars

-----------------------------------------------------------------------------
(* perform_web_search on its own: one call with a query, a result cap and  *)
(* a behaviour of the search provider                                       *)

ResultCaps == {1, 3, 5}

SearchResponses ==
  {[kind |-> k, citations |-> <<>>, content |-> ""] : k \in {"no_key", "raise", "malformed"}}
    \cup {SearchOk([i \in 1..n |-> Citation(q, i)], c) :
            n \in {0} \cup CitationCounts, q \in Queries, c \in {"", "found"}}

InitSearch ==
  /\ pc = "search"
  /\ graph = [use_binary_classifier |-> TRUE]
  /\ state = Empty
  /\ step = 0
  /\ tasks = {}
  /\ done = {}
  /\ writes = <<>>
  /\ log = <<>>
  /\ calls = [gen |-> 0, score |-> 0, search |-> 0]
  /\ hist = <<>>
  /\ writers = {}
  /\ clients = Unbuilt
  /\ log_dir = "writable"

\* perform_web_search(query, num_results) returns
Search ==
  /\ pc = "search"
  /\ pc' = "searched"
  /\ \E query \in Queries, num_results \in ResultCaps, so \in SearchResponses :
       /\ writes' = <<[node |-> "perform_web_search", query |-> query,
                       num_results |-> num_results,
                       results |-> perform_web_search(query, num_results, so)]>>
       /\ hist' = <<[node |-> "perform_web_search", backend |-> so]>>
  /\ calls' = [calls EXCEPT !.search = 1]
  /\ UNCHANGED <<graph, clients, log_dir, state, step, tasks, done, log, writers>>

NextSearch == Search

SpecSearch == InitSearch /\ [][NextSearch]_vars

-----------------------------------------------------------------------------
(* The verifier on its own: one call on a state holding what the upstream  *)
(* stages left there (any of their fields may still be missing: the        *)
(* verifier reads them with defaults)                                       *)

UpstreamProbabilities == {0, 15, 16, 60}
UpstreamTechniques == {<<>>, <<"fear_appeals">>}

VerifyBehaviours == GraphVerifications \cup {NoClient}

InitVerify ==
  /\ pc = "verify"
  /\ graph = [use_binary_classifier |-> TRUE]
  /\ state \in {[content |-> c, content_id |-> "cid-1"] @@ mp @@ mt @@ n @@ f :
                  c \in Contents,
                  mp \in Optional("manipulation_probability", UpstreamProbabilities),
                  mt \in Optional("manipulation_techniques", UpstreamTechniques),
                  n \in Optional("narrative", {"narrative"}),
                  f \in Optional("fact_check_results", {"facts"})}
  /\ step = 0
  /\ tasks = {}
  /\ done = {}
  /\ writes = <<>>
  /\ log = <<>>
  /\ calls = [gen |-> 0, score |-> 0, search |-> 0]
  /\ hist = <<>>
  /\ writers = {}
  /\ clients = Unbuilt
  /\ log_dir = "writable"

\* verifier is called on state, the generation backend behaves as o
Verify ==
  /\ pc = "verify"
  /\ pc' = "verified"
  /\ \E o \in VerifyBehaviours :
       LET r == verifier(state, o)
       IN  /\ writes' = <<[node |-> "verifier", update |-> r.update]>>
           /\ log' = r.events
           /\ calls' = [gen |-> r.gen, score |-> r.score, search |-> r.search]
           /\ hist' = <<[node |-> "verifier", backend |-> o]>>
  /\ UNCHANGED <<graph, clients, log_dir, state, step, tasks, done, writers>>

NextVerify == Verify

SpecVerify == InitVerify /\ [][NextVerify]_vars

-----------------------------------------------------------------------------
(* The narrative extractor on its own: one call on a state holding what    *)
(* the classifier left there                                                *)

NarrativeTexts == {"", "narrative"}

NarrateBehaviours == GenFailures \cup {Plain(t) : t \in NarrativeTexts}

InitNarrate ==
  /\ pc = "narrate"
  /\ graph = [use_binary_classifier |-> TRUE]
  /\ state \in {c @@ i @@ mp @@ mt :
                  c \in Optional("content", Contents),
                  i \in Optional("content_id", {"cid-1"}),
                  mp \in Optional("manipulation_probability", UpstreamProbabilities),
                  mt \in Optional("manipulation_techniques", UpstreamTechniques)}
  /\ step = 0
  /\ tasks = {}
  /\ done = {}
  /\ writes = <<>>
  /\ log = <<>>
  /\ calls = [gen |-> 0, score |-> 0, search |-> 0]
  /\ hist = <<>>
  /\ writers = {}
  /\ clients = Unbuilt
  /\ log_dir = "writable"

\* narrative_extractor is called on state, the generation backend behaves as o
Narrate ==
  /\ pc = "narrate"
  /\ pc' = "narrated"
  /\ \E o \in NarrateBehaviours :
       LET r == narrative_extractor(state, o)
       IN  /\ writes' = <<[node |-> "narrative_extractor", update |-> r.update]>>
           /\ log' = r.events
           /\ calls' = [gen |-> r.gen, score |-> r.score, search |-> r.search]
           /\ hist' = <<[node |-> "narrative_extractor", backend |-> o]>>
  /\ UNCHANGED <<graph, clients, log_dir, state, step, tasks, done, writers>>

NextNarrate == Narrate

SpecNarrate == InitNarrate /\ [][NextNarrate]_vars

-----------------------------------------------------------------------------
(* Graph runs in a working directory whose log directory may not be        *)
(* writable                                                                 *)

\* create_graph() as analyze_content calls it, and with the prompt-based variant
SinkConfigs == {cc \in ClassifierConfigs : cc.keys = Empty}

InitSink ==
  /\ pc = "call"
  /\ \E cc \in SinkConfigs :
       /\ graph = cc.g
       /\ state \in {[content |-> c, content_id |-> "cid-1"] @@ cc.keys :
                       c \in Contents \cup {NotAString}}
  /\ step = 0
  /\ tasks = {}
  /\ done = {}
  /\ writes = <<>>
  /\ log = <<>>
  /\ calls = [gen |-> 0, score |-> 0, search |-> 0]
  /\ hist = <<>>
  /\ writers = {}
  /\ clients = Unbuilt
  /\ log_dir \in LogDirs

SpecSink == InitSink /\ [][Next]_vars

-----------------------------------------------------------------------------
(* The process: its module-level clients, and stage functions called one   *)
(* after the other on one input. clients counts the constructions of each  *)
(* client; the specifications above follow a single run or call and leave  *)
(* it as it is.                                                             *)

MaxInvocations == 2

\* get_gemini_client() of module m when the key is set
get_gemini_client(cl, m) ==
  IF cl.gemini[m] = 0 THEN [cl EXCEPT !.gemini[m] = 1] ELSE cl

\* get_classifier_pipeline(model_key) when pipeline() succeeds
get_classifier_pipeline(cl, model_key) ==
  IF cl.pipelines[model_key] = 0 THEN [cl EXCEPT !.pipelines[model_key] = 1] ELSE cl

\* Perplexity(api_key=api_key), once in every perform_web_search that found the key
Perplexity(cl, searches) ==
  [cl EXCEPT !.perplexity = @ + searches]

\* the clients after a stage of module m made its generation call with outcome o
BuiltByGeneration(cl, m, st, o) ==
  IF Blank(Content(st)) \/ o.kind = "no_client" THEN cl ELSE get_gemini_client(cl, m)

\* the clients after manipulation_classifier_binary
BuiltByScoring(cl, st, o) ==
  IF Blank(Content(st)) \/ ModelKey(st) \notin DOMAIN MODELS \/ o.kind = "load_error"
  THEN cl
  ELSE get_classifier_pipeline(cl, ModelKey(st))

\* the clients after fact_checker: its Gemini client at the first generation
\* call it makes, and one Perplexity client in each search that has the key
BuiltByFactCheck(cl, st, o) ==
  LET first == IF UseCache(st) THEN o.synth ELSE o.queries
      searches == SearchCalls(st, o)
      keyed == {i \in DOMAIN searches : o.searches[searches[i].query].kind # "no_key"}
  IN  Perplexity(BuiltByGeneration(cl, "fact_checker", st, first), Cardinality(keyed))

\* a missing key cannot be the outcome once the module holds its client
KeyOutcome(cl, m, o) == o.kind = "no_client" => cl.gemini[m] = 0

\* nor a failing pipeline() once the pipeline is cached
LoadOutcome(cl, st, o) ==
  (o.kind = "load_error" /\ ModelKey(st) \in DOMAIN MODELS) => cl.pipelines[ModelKey(st)] = 0

ProcessScoring == ScoringOutcomes({"LABEL_1", "NOT_MANIPULATIVE"}, {5, 90}, 1)

ProcessCaches ==
  { Empty,
    [_use_search_cache |-> TRUE, _cached_search_queries |-> CachedQueries,
     _cached_search_results |-> CachedResults] }

InitProcess ==
  /\ pc = "process"
  /\ graph = [use_binary_classifier |-> TRUE]
  /\ state \in {[content |-> c, content_id |-> "cid-1"] @@ m @@ sc :
                  c \in Contents,
                  m \in Optional("_manipulation_model", {"lapa-llm", "bogus"}),
                  sc \in ProcessCaches}
  /\ step = 0
  /\ tasks = {}
  /\ done = {}
  /\ writes = <<>>
  /\ log = <<>>
  /\ calls = [gen |-> 0, score |-> 0, search |-> 0]
  /\ hist = <<>>
  /\ writers = {}
  /\ clients = Unbuilt
  /\ log_dir = "writable"

\* the stage function n is called on state, the backends behave as o, the
\* function returns r after the search calls searched, and the process's
\* clients are built afterwards
Invocation(n, o, r, searched, built) ==
  /\ pc = "process"
  /\ step < MaxInvocations
  /\ step' = step + 1
  /\ writes' = <<[node |-> n, update |-> r.update, searched |-> searched]>>
  /\ log' = r.events
  /\ calls' = [gen |-> r.gen, score |-> r.score, search |-> r.search]
  /\ hist' = <<[node |-> n, backend |-> o]>>
  /\ clients' = built
  /\ UNCHANGED <<pc, graph, log_dir, state, tasks, done, writers>>

InvokeBinary ==
  /\ pc = "process"
  /\ \E o \in ProcessScoring :
       /\ LoadOutcome(clients, state, o)
       /\ Invocation("manipulation_classifier_binary", o,
                     manipulation_classifier_binary(state, o), <<>>,
                     BuiltByScoring(clients, state, o))

InvokePrompt ==
  /\ pc = "process"
  /\ \E o \in GenFailures \cup GenTexts(GraphClassifierBodies) :
       /\ KeyOutcome(clients, "manipulation_classifier", o)
       /\ Invocation("manipulation_classifier", o, manipulation_classifier(state, o), <<>>,
                     BuiltByGeneration(clients, "manipulation_classifier", state, o))

InvokeLora ==
  /\ pc = "process"
  /\ \E o \in LoraTexts :
       Invocation("manipulation_classifier_lora", o, manipulation_classifier_lora(state, o),
                  <<>>, clients)

InvokeNarrative ==
  /\ pc = "process"
  /\ \E o \in NarrateBehaviours :
       /\ KeyOutcome(clients, "narrative_extractor", o)
       /\ Invocation("narrative_extractor", o, narrative_extractor(state, o), <<>>,
                     BuiltByGeneration(clients, "narrative_extractor", state, o))

InvokeFactChecker ==
  /\ pc = "process"
  /\ \E o \in FactCheckBehaviours :
       Invocation("fact_checker", o, fact_checker(state, o), SearchCalls(state, o),
                  BuiltByFactCheck(clients, state, o))

InvokeVerifier ==
  /\ pc = "process"
  /\ \E o \in VerifyBehaviours :
       /\ KeyOutcome(clients, "verifier", o)
       /\ Invocation("verifier", o, verifier(state, o), <<>>,
                     BuiltByGeneration(clients, "verifier", state, o))

NextProcess ==
  \/ InvokeBinary
  \/ InvokePrompt
  \/ InvokeLora
  \/ InvokeNarrative
  \/ InvokeFactChecker
  \/ InvokeVerifier

SpecProcess == InitProcess /\ [][NextProcess]_vars

-----------------------------------------------------------------------------
(* The HTTP endpoint POST /analyze. state is the JSON body of the request; *)
(* a string is held as runs of one character, so that its length can pass  *)
(* the limit.                                                               *)

min_length == 1
max_length == 10000

Run(c, n) == [c |-> c, n |-> n]

\* len(v)
RECURSIVE RunLen(_)
RunLen(v) == IF v = <<>> THEN 0 ELSE Head(v).n + RunLen(Tail(v))

\* v.strip() == ""
RunsBlank(v) == \A i \in DOMAIN v : v[i].c \in Whitespace

\* a validator that lets every string through
content_may_be_blank(v) == TRUE

\* the field validator of content: FALSE when it raises ValueError
content_must_not_be_empty(v) == ~RunsBlank(v)

\* the validation of the request body: FALSE when the request is rejected
AnalyzeRequest(body) ==
  /\ "content" \in DOMAIN body
  /\ body["content"].t = "str"
  /\ RunLen(body["content"].items) >= min_length
  /\ RunLen(body["content"].items) <= max_length
  /\ content_must_not_be_empty(body["content"].items)

RunLengths == {1, 9999, 10000, 10001}

Runs == {Run(c, n) : c \in {" ", "x"}, n \in RunLengths}

RequestBodies ==
  {Empty}
    \cup {[content |-> v] : v \in {JNull, JNum(123), JBool(TRUE), JList(<<>>)}}
    \cup {[content |-> JStr(v)] : v \in SeqsUpTo(Runs, 2)}

\* what analyze_content does: it returns a final_result or raises
PipelineOutcomes ==
  {Raise("timeout"),
   [kind |-> "verdict", final_result |-> NoContentVerdict],
   [kind |-> "verdict",
    final_result |-> FallbackVerdict(60, <<"fear_appeals">>, <<AnalysisDone>>)]}

InitApi ==
  /\ pc = "request"
  /\ graph = [use_binary_classifier |-> TRUE]
  /\ state \in RequestBodies
  /\ step = 0
  /\ tasks = {}
  /\ done = {}
  /\ writes = <<>>
  /\ log = <<>>
  /\ calls = [gen |-> 0, score |-> 0, search |-> 0]
  /\ hist = <<>>
  /\ writers = {}
  /\ clients = Unbuilt
  /\ log_dir = "writable"

\* POST /analyze: the body is validated; a valid request is logged, handed
\* to analyze_content and answered with the verdict, or with 500 when the
\* analysis raises. writes holds the response, hist the pipeline invocation.
analyze ==
  /\ pc = "request"
  /\ pc' = "responded"
  /\ IF ~AnalyzeRequest(state)
     THEN /\ writes' = <<[status |-> 422]>>
          /\ UNCHANGED <<hist, log>>
     ELSE \E id \in UUIDs, o \in PipelineOutcomes :
            /\ hist' = <<[node |-> "analyze_content", content |-> state["content"],
                          content_id |-> id, backend |-> o]>>
            /\ IF Failed(o)
               THEN /\ writes' = <<[status |-> 500, detail |-> o.err]>>
                    /\ log' = <<Event("log_step", "api_request", id, ""),
                                Event("log_step", "api_error", id, o.err)>>
               ELSE /\ writes' = <<[status |-> 200, body |-> o.final_result]>>
                    /\ log' = <<Event("log_step", "api_request", id, ""),
                                Event("log_step", "api_response", id, "")>>
  /\ UNCHANGED <<graph, clients, log_dir, state, step, tasks, done, calls, writers>>

NextApi == analyze

SpecApi == InitApi /\ [][NextApi]_vars

-----------------------------------------------------------------------------
(* The LoRA variants of the classification and narrative stages: which    *)
(* adapter they select.  A name is the sequence of its parts between      *)
(* underscores, so that "lapa_small" is <<"lapa", "small">>.              *)

\* for model_name in ["mamaylm", "lapa", "lapa_small"]
Candidates == <<"mamaylm", "lapa", "lapa_small">>

LoraTasks == {"manipulation_classifier", "narrative_extractor"}

\* str.split("_")
Parts(name) ==
  CASE name = "mamaylm" -> <<"mamaylm">>
    [] name = "lapa" -> <<"lapa">>
    [] name = "lapa_small" -> <<"lapa", "small">>
    [] name = "manipulation_classifier" -> <<"manipulation", "classifier">>
    [] name = "narrative_extractor" -> <<"narrative", "extractor">>
    [] OTHER -> <<name>>

\* f"{model_name}_{task_type}_lora"
AdapterDir(model_name, task_type) ==
  Parts(model_name) \o Parts(task_type) \o <<"lora">>

\* "_lora" in adapter_dir.name
HasLoraSuffix(dir) == \E k \in 2..Len(dir) : dir[k] = "lora"

\* adapter_dir.name.replace("_lora", "").split("_")
RECURSIVE NameParts(_)
NameParts(dir) ==
  IF Len(dir) <= 1 THEN dir
  ELSE LET init == SubSeq(dir, 1, Len(dir) - 1)
       IN  IF dir[Len(dir)] = "lora" THEN NameParts(init)
           ELSE Append(NameParts(init), dir[Len(dir)])

\* LoRAClientManager.list_available_adapters: the first part of a directory
\* name is the model, the rest is the task
list_available_adapters(dirs) ==
  LET parsed == {NameParts(d) : d \in {x \in dirs : HasLoraSuffix(x)}}
      named == {q \in parsed : Len(q) >= 2}
  IN  [model \in {<<q[1]>> : q \in named} |->
         {Tail(q) : q \in {x \in named : <<x[1]>> = model}}]

\* LoRAClientManager.get_client: the cached client, or a new one when the
\* adapter directory exists and the model loads, or None
get_client(dirs, loadable, cache, model_name, task_type) ==
  IF model_name \in cache THEN [client |-> model_name, cache |-> cache]
  ELSE IF AdapterDir(model_name, task_type) \notin dirs
  THEN [client |-> "None", cache |-> cache]
  ELSE IF model_name \in loadable
  THEN [client |-> model_name, cache |-> cache \cup {model_name}]
  ELSE [client |-> "None", cache |-> cache]

\* the methods of MetricsLogger
MetricsLoggerMethods ==
  {"log_step", "log_classification", "log_narrative_extraction",
   "log_fact_checking", "log_verification", "log_pipeline_complete"}

\* the candidate loop from candidate k on: the client it holds when it
\* ends, and whether it ended by logger.info raising
RECURSIVE SelectAdapter(_, _, _, _, _)
SelectAdapter(dirs, loadable, cache, task_type, k) ==
  IF k > Len(Candidates) THEN [client |-> "None", cache |-> cache, raised |-> FALSE]
  ELSE LET model_name == Candidates[k]
           available_adapters == list_available_adapters(dirs)
           listed == /\ Parts(model_name) \in DOMAIN available_adapters
                     /\ Parts(task_type) \in available_adapters[Parts(model_name)]
           got == get_client(dirs, loadable, cache, model_name, task_type)
       IN  IF ~listed THEN SelectAdapter(dirs, loadable, cache, task_type, k + 1)
           ELSE IF got.client = "None"
           THEN SelectAdapter(dirs, loadable, got.cache, task_type, k + 1)
           ELSE IF "info" \in MetricsLoggerMethods
           THEN [client |-> got.client, cache |-> got.cache, raised |-> FALSE]
           ELSE [client |-> got.client, cache |-> got.cache, raised |-> TRUE]

\* the stage on non-empty content: the client selected, the path that
\* generated the text ("None" when the stage raised before generating), and
\* the error the stage caught
LoraStage(dirs, loadable, cache, task_type) ==
  LET sel == SelectAdapter(dirs, loadable, cache, task_type, 1)
  IN  IF sel.raised
      THEN [selected |-> sel.client, used |-> "None", err |-> "AttributeError",
            cache |-> sel.cache]
      ELSE IF sel.client # "None"
      THEN [selected |-> sel.client, used |-> sel.client, err |-> "", cache |-> sel.cache]
      ELSE IF "info" \in MetricsLoggerMethods
      THEN [selected |-> "None", used |-> "prompt", err |-> "", cache |-> sel.cache]
      ELSE [selected |-> "None", used |-> "None", err |-> "AttributeError",
            cache |-> sel.cache]

\* the directories of lora_models, one that is no adapter among them
AdapterDirs ==
  {AdapterDir(m, t) : m \in {Candidates[k] : k \in DOMAIN Candidates}, t \in LoraTasks}

ModelsDirs == {dirs \cup other : dirs \in SUBSET AdapterDirs, other \in {{}, {<<"README">>}}}

\* the models whose LoRAClient loads
Loadable == SUBSET {Candidates[k] : k \in DOMAIN Candidates}

InitLora ==
  /\ pc = "process"
  /\ graph = [use_binary_classifier |-> FALSE]
  /\ state \in {[content |-> <<"x">>, content_id |-> "cid-1", models_dir |-> d,
                 loadable |-> l] : d \in ModelsDirs, l \in Loadable}
  /\ step = 0
  /\ tasks = {}
  /\ done = {}
  /\ writes = <<>>
  /\ log = <<>>
  /\ calls = [gen |-> 0, score |-> 0, search |-> 0]
  /\ hist = <<>>
  /\ writers = {}
  /\ clients = [t \in LoraTasks |-> {}]
  /\ log_dir = "writable"

\* a call of the LoRA stage n for the task on non-empty content
CallLora(n, task_type, failed_update) ==
  /\ pc = "process"
  /\ step < MaxInvocations
  /\ LET r == LoraStage(state.models_dir, state.loadable, clients[task_type], task_type)
     IN  /\ clients' = [clients EXCEPT ![task_type] = r.cache]
         /\ hist' = Append(hist, [node |-> n, task |-> task_type,
                                  selected |-> r.selected, used |-> r.used])
         /\ writes' = Append(writes, [node |-> n,
                                       update |-> IF r.err # "" THEN failed_update
                                                  ELSE [generated_by |-> r.used]])
         /\ log' = IF r.err # ""
                   THEN Append(log, Event("log_step", n, ContentId(state), r.err))
                   ELSE log
         /\ calls' = [calls EXCEPT !.gen = @ + (IF r.used # "None" THEN 1 ELSE 0)]
  /\ step' = step + 1
  /\ UNCHANGED <<pc, graph, log_dir, state, tasks, done, writers>>

CallClassifierLora ==
  CallLora("manipulation_classifier_lora", "manipulation_classifier", PromptDefaults)

CallNarrativeLora ==
  CallLora("narrative_extractor_lora", "narrative_extractor",
             [narrative |-> NarrativeFailedPrefix \o "AttributeError"])

NextLora ==
  \/ CallClassifierLora
  \/ CallNarrativeLora

SpecLora == InitLora /\ [][NextLora]_vars

-----------------------------------------------------------------------------
(* Properties *)

\* content.trim() == ""
TrimmedEmpty == Strip(Content(state)) = <<>>

NonEmptyRun == HasStrip(Content(state)) /\ ~TrimmedEmpty

HasVerdict == "final_result" \in DOMAIN state

VerifierEvents == {i \in DOMAIN log : log[i].step = "verifier"}

\* C1: a run whose content is non-empty never raises, whatever the backends do.
C1_RunNeverRaises == NonEmptyRun => pc # "raised"

\* What does hold of the runs that raise: none of them is caused by a backend
\* call that raised; the verdict returned by the verifier has a techniques
\* value without a length.
C1_OnlyUnsizedTechniquesRaise ==
  (pc = "raised" /\ NonEmptyRun) =>
    /\ HasVerdict
    /\ ~HasLen(DictGet(state["final_result"], "techniques", JList(<<>>)))

\* C2: the final_result of the state a run returns has the four keys
\* manipulation, techniques, disinfo and explanation.
C2_FourKeys ==
  /\ pc = "returned" => HasVerdict
  /\ HasVerdict => RequiredKeys \subseteq DOMAIN state["final_result"]

\* a run returned although a verification call gave a payload that was
\* rejected or failed
C2_Witness ==
  /\ pc = "returned"
  /\ NonEmptyRun
  /\ \E i \in VerifierEvents : log[i].error = "timeout"
  /\ state["final_result"]["explanation"].items[1] = AnalysisDone

\* C3: the final_result a run returns is correctly typed: a boolean, two
\* lists of strings and a string.
C3_Typed ==
  pc = "returned" =>
    /\ state["final_result"]["manipulation"].t = "bool"
    /\ state["final_result"]["techniques"].t = "list"
    /\ state["final_result"]["disinfo"].t = "list"
    /\ state["final_result"]["explanation"].t = "str"

\* C4: in every state with a verdict, manipulation true implies that the
\* techniques or the disinfo of the verdict are non-empty.
C4_ManipulationHasGrounds ==
  HasVerdict =>
    (state["final_result"]["manipulation"] = JBool(TRUE) =>
       \/ state["final_result"]["techniques"].items # <<>>
       \/ state["final_result"]["disinfo"].items # <<>>)

\* C5: no node starts before all its declared upstream nodes have completed,
\* and every verifier execution sees the narrative and the fact-check summary.
C5_UpstreamFirst ==
  \A i \in DOMAIN hist :
    /\ Upstream(hist[i].node) \subseteq hist[i].completed
    /\ hist[i].node = "verifier" => {"narrative", "fact_check_results"} \subseteq hist[i].saw

\* no field is written by two different stages
SingleWriter ==
  \A a, b \in writers \cup Written(writes) : a[2] = b[2] => a[1] = b[1]

\* at the end of a superstep every update reaches the merged state unchanged
MergeIsUnion ==
  (writes # <<>> /\ writes' = <<>>) =>
    /\ ~Conflict(writes)
    /\ \A i \in DOMAIN writes : \A f \in DOMAIN writes[i].update :
         f \in DOMAIN state' /\ state'[f] = writes[i].update[f]

\* C6: the two entry nodes run in the same superstep from the same state, no
\* field is ever written by two stages, and whatever the order in which the
\* nodes of a superstep ran, the merged state holds each node's update as is.
C6_DisjointMerge ==
  /\ [](SingleWriter /\ ~Conflict(writes))
  /\ [](\A i \in DOMAIN hist :
          hist[i].node \in {"manipulation_classifier", "fact_checker"} =>
            hist[i].step = 1 /\ hist[i].saw = {})
  /\ [][MergeIsUnion]_vars

\* both entry nodes have run in the first superstep, the fact checker first
C6_Witness ==
  /\ step = 1
  /\ Len(writes) = 2
  /\ writes[1].node = "fact_checker"
  /\ NonEmptyRun

\* the executions of a node recorded so far
Executions(n) == {i \in DOMAIN hist : hist[i].node = n}

EmptyOutputs ==
  [manipulation_probability |-> 0, manipulation_techniques |-> <<>>,
   is_manipulation |-> FALSE, manipulation_score |-> 0,
   narrative |-> "", search_queries |-> <<>>, search_results |-> <<>>,
   fact_check_results |-> NoContentFacts, final_result |-> NoContentVerdict]

\* C7: when the content is empty after trimming, every stage returns its
\* empty-path output, no backend call is made, and the run returns the fixed
\* no-content verdict.
C7_EmptyContent ==
  TrimmedEmpty =>
    /\ calls = [gen |-> 0, score |-> 0, search |-> 0]
    /\ pc # "raised"
    /\ \A i \in DOMAIN writes : \A f \in DOMAIN writes[i].update :
         writes[i].update[f] = EmptyOutputs[f]
    /\ \A f \in DOMAIN state \cap OutputFields : state[f] = EmptyOutputs[f]
    /\ pc = "returned" => HasVerdict /\ state["final_result"] = NoContentVerdict

\* a run on whitespace-only content has returned
C7_Witness ==
  /\ pc = "returned"
  /\ Content(state) # <<>>
  /\ TrimmedEmpty
  /\ state["final_result"] = NoContentVerdict
  /\ \A n \in Nodes : Executions(n) # {}

HasContentId == "content_id" \in DOMAIN state /\ state["content_id"] # ""

\* the executor's first step on the caller's input
AssignsContentId ==
  pc = "call" =>
    /\ "content_id" \in DOMAIN state'
    /\ IF HasContentId THEN state'["content_id"] = state["content_id"]
       ELSE state'["content_id"] \in UUIDs

KeepsContentId ==
  pc # "call" => "content_id" \in DOMAIN state' /\ state'["content_id"] = state["content_id"]

\* C8: a missing or empty content_id is replaced by a generated identifier
\* before any stage executes, a caller's non-empty content_id is kept, and
\* every metrics event of the run carries the run's content_id.
C8_ContentId ==
  /\ [](pc = "call" => hist = <<>> /\ log = <<>>)
  /\ [](pc # "call" =>
          /\ HasContentId
          /\ \A i \in DOMAIN log : log[i].content_id = state["content_id"])
  /\ [][AssignsContentId /\ KeepsContentId]_vars

\* a run that was given no usable content_id has returned and logged the
\* events of its stages and its pipeline event under the generated one
C8_Witness ==
  /\ pc = "returned"
  /\ state["content_id"] \in UUIDs
  /\ \E i \in DOMAIN log : log[i].step = "pipeline_complete"
  /\ \E i \in DOMAIN log : log[i].step = "verifier"
  /\ \E i \in DOMAIN log : log[i].step = "fact_checker"

ClassifierWrites == {i \in DOMAIN writes : writes[i].node \in ClassifierNodes}

\* the decision threshold of the variant that produced a classification
VariantThreshold(n) ==
  CASE n = "manipulation_classifier_binary" -> ActiveThreshold(state)
    [] n = "manipulation_classifier" -> THRESHOLD
    [] OTHER -> LORA_THRESHOLD

\* C9: a classification whose probability (or score) is below the variant's
\* active threshold has no techniques.
C9_BelowThresholdNoTechniques ==
  \A i \in ClassifierWrites :
    LET u == writes[i].update
        t == VariantThreshold(writes[i].node)
    IN  (\/ u["manipulation_probability"] < t
         \/ "manipulation_score" \in DOMAIN u /\ u["manipulation_score"] < t)
          => u["manipulation_techniques"] = <<>>

\* the multi-label backend scored below the threshold in force, and the
\* prompt-based variant parsed a probability below its own
C9_Witness ==
  \E i \in ClassifierWrites :
    LET u == writes[i].update
    IN  /\ NonEmptyRun
        /\ u["manipulation_probability"] > 0
        /\ u["manipulation_probability"] < VariantThreshold(writes[i].node)
        /\ \/ writes[i].node = "manipulation_classifier"
           \/ ModelKey(state) = "modern-bert"

\* C10: no label outside the technique vocabulary is in the
\* manipulation_techniques of the prompt-based or the scoring-backend variant.
C10_VocabularyOnly ==
  \A i \in ClassifierWrites :
    writes[i].node \in {"manipulation_classifier", "manipulation_classifier_binary"} =>
      Range(writes[i].update["manipulation_techniques"]) \subseteq Range(VALID_TECHNIQUES)

\* What does hold: the prompt-based variant drops every unknown label.
C10_PromptVocabularyOnly ==
  \A i \in ClassifierWrites :
    writes[i].node = "manipulation_classifier" =>
      Range(writes[i].update["manipulation_techniques"]) \subseteq Range(VALID_TECHNIQUES)

\* a sequence without a repeated element
NoDuplicates(s) == \A i, j \in DOMAIN s : s[i] = s[j] => i = j

\* C11: the manipulation_techniques of no classification variant holds the
\* same technique name twice, whatever the backend returns.
C11_NoDuplicateTechniques ==
  \A i \in ClassifierWrites : NoDuplicates(writes[i].update["manipulation_techniques"])

\* C12: for the same input and backend score and two thresholds t1 <= t2,
\* the reported manipulation_score is the same under both, and
\* is_manipulation under t2 implies is_manipulation under t1.
C12_ThresholdMonotone ==
  pc = "compared" =>
    \A i, j \in DOMAIN writes :
      /\ writes[i].update["manipulation_score"] = writes[j].update["manipulation_score"]
      /\ writes[i].threshold <= writes[j].threshold =>
           (writes[j].update["is_manipulation"] => writes[i].update["is_manipulation"])

\* raising the threshold flipped is_manipulation from true to false
C12_Witness ==
  /\ pc = "compared"
  /\ NonEmptyRun
  /\ writes[1].threshold < writes[2].threshold
  /\ writes[1].update["is_manipulation"]
  /\ ~writes[2].update["is_manipulation"]
  /\ writes[1].update["manipulation_score"] > 0

\* the backend behaviour of the classification on record
Backend == hist[1].backend

\* the calls of the scoring-backend variant on non-empty content
ScoringRuns ==
  {i \in ClassifierWrites :
     writes[i].node = "manipulation_classifier_binary" /\ NonEmptyRun}

\* those with the multi-label backend kind whose backend returned a list of
\* (label, score) pairs
MultiLabelRuns ==
  {i \in ScoringRuns :
     /\ ModelKey(state) = "modern-bert"
     /\ Backend.kind = "results"
     /\ \A k \in DOMAIN Backend.results : DOMAIN Backend.results[k] = {"label", "score"}}

\* the vocabulary name of a backend category
VocabularyName(label) ==
  IF label \in DOMAIN LABEL_MAPPING THEN LABEL_MAPPING[label] ELSE label

\* the vocabulary names of the categories scored above t, in result order
RECURSIVE ExceedingNames(_, _)
ExceedingNames(results, t) ==
  IF results = <<>> THEN <<>>
  ELSE (IF Head(results).score > t THEN <<VocabularyName(Head(results).label)>> ELSE <<>>)
         \o ExceedingNames(Tail(results), t)

MaxScore(results) ==
  IF results = <<>> THEN 0
  ELSE CHOOSE m \in {results[k].score : k \in DOMAIN results} :
         \A k \in DOMAIN results : m >= results[k].score

MultiLabelExact(i) ==
  LET u == writes[i].update
      t == ActiveThreshold(state)
  IN  /\ u["manipulation_techniques"] = ExceedingNames(Backend.results, t)
      /\ u["manipulation_score"] = MaxScore(Backend.results)
      /\ u["is_manipulation"] = (u["manipulation_score"] >= t)

\* C13: with the multi-label backend kind and active threshold t, the
\* techniques are exactly the vocabulary names of the categories scored above
\* t, in result order, the score is the maximum over all categories and
\* is_manipulation = (score >= t).
C13_MultiLabelExact ==
  \A i \in MultiLabelRuns :
    /\ MultiLabelExact(i)
    /\ Range(writes[i].update["manipulation_techniques"]) \subseteq Range(VALID_TECHNIQUES)

\* What does hold: the three equalities, for every result list whose labels
\* are backend labels of the mapping or vocabulary names.
C13_KnownCategoriesExact ==
  \A i \in MultiLabelRuns :
    (\A k \in DOMAIN Backend.results :
       Backend.results[k].label \in DOMAIN LABEL_MAPPING \cup Range(VALID_TECHNIQUES))
      => /\ MultiLabelExact(i)
         /\ Range(writes[i].update["manipulation_techniques"]) \subseteq Range(VALID_TECHNIQUES)

\* the scenario {fear_appeals: 0.9, cliche: 0.05} with threshold 0.15
C13_Scenario ==
  (/\ MultiLabelRuns # {}
   /\ ActiveThreshold(state) = 15
   /\ Backend.results = <<[label |-> "fear_appeals", score |-> 90],
                           [label |-> "cliche", score |-> 5]>>)
    => \A i \in MultiLabelRuns :
         writes[i].update = [is_manipulation |-> TRUE, manipulation_score |-> 90,
                             manipulation_probability |-> 90,
                             manipulation_techniques |-> <<"fear_appeals">>]

\* C14: with the multi-label backend kind, an output with is_manipulation
\* true has at least one technique.
C14_ManipulationHasTechniques ==
  \A i \in ScoringRuns :
    (ModelKey(state) = "modern-bert" /\ writes[i].update["is_manipulation"])
      => writes[i].update["manipulation_techniques"] # <<>>

\* the scoring backend could not be obtained, or its call or the reading of
\* its result failed
ScoringFailed ==
  \/ ModelKey(state) \notin DOMAIN MODELS
  \/ Backend.kind \in {"load_error", "raise", "nested"}

\* C15: when the scoring backend cannot be obtained or its call fails
\* (an unknown backend key included), the stage returns is_manipulation
\* false, score and probability 0.0 and no techniques, and one error event
\* is recorded.
C15_ScoringFailureContained ==
  \A i \in ScoringRuns :
    ScoringFailed =>
      /\ pc = "classified"
      /\ writes[i].update = [is_manipulation |-> FALSE, manipulation_score |-> 0,
                             manipulation_probability |-> 0,
                             manipulation_techniques |-> <<>>]
      /\ \E j \in DOMAIN log :
           /\ log[j].fn = "log_step"
           /\ log[j].error # ""
           /\ log[j].content_id = ContentId(state)

\* the stage was called with an unknown backend key and returned the defaults
C15_Witness ==
  /\ ScoringRuns # {}
  /\ ModelKey(state) = "bogus"
  /\ writes[1].update["manipulation_techniques"] = <<>>
  /\ ~writes[1].update["is_manipulation"]
  /\ log[1].error = "Unknown model key"

\* the calls of the prompt-based variant that received a response text
PromptResponses ==
  {i \in ClassifierWrites :
     /\ writes[i].node = "manipulation_classifier"
     /\ NonEmptyRun
     /\ Backend.kind = "text"}

\* a value float() turns into a number
NumberLike(v) == v.t \in {"num", "bool"} \/ (v.t = "str" /\ v.items \in NumericStrings)

\* the response is a JSON object, bare or inside a code fence, whose
\* probability (when given) is a number
WellFormedPayload(o) ==
  /\ o.suf = "" \/ (o.pre # "" /\ o.suf = "fence")
  /\ o.body.kind = "dict"
  /\ "manipulation_probability" \in DOMAIN o.body.fields
        => NumberLike(o.body.fields["manipulation_probability"])

\* C16: in the prompt-based variant a response that is not a well-formed
\* payload gives probability 0.0 and no techniques, without raising, and the
\* reported probability is always within [0, 1].
C16_MalformedDegrades ==
  \A i \in PromptResponses :
    /\ pc = "classified"
    /\ writes[i].update["manipulation_probability"] \in 0..100
    /\ ~WellFormedPayload(Backend) =>
         writes[i].update = [manipulation_probability |-> 0, manipulation_techniques |-> <<>>]

\* a response whose probability is not a number was answered with (0.0, [])
C16_Witness ==
  /\ PromptResponses # {}
  /\ Backend.suf = ""
  /\ Backend.body.kind = "dict"
  /\ DictGet(Backend.body.fields, "manipulation_probability", JNull) = JStr(<<"high">>)
  /\ writes[1].update = [manipulation_probability |-> 0, manipulation_techniques |-> <<>>]

\* a payload with a probability above 1 was reported as 1.0
C16_Clamped ==
  /\ PromptResponses # {}
  /\ WellFormedPayload(Backend)
  /\ DictGet(Backend.body.fields, "manipulation_probability", JNull) = JNum(150)
  /\ writes[1].update["manipulation_probability"] = 100

\* the classification events of the log
ClassificationEvents == {i \in DOMAIN log : log[i].fn = "log_classification"}

\* C17: every call of a classification variant emits exactly one
\* classification metrics event, on the normal, the empty-content, the
\* malformed-payload and the backend-error path alike.
C17_OneClassificationEvent ==
  pc = "classified" => Cardinality(ClassificationEvents) = 1

\* What does hold: no call emits more than one classification event, and the
\* calls that emit none are those that ended in the outer except branch.
C17_AtMostOne ==
  pc = "classified" =>
    /\ Cardinality(ClassificationEvents) <= 1
    /\ ClassificationEvents = {} =>
         \E j \in DOMAIN log : log[j].fn = "log_step" /\ log[j].error # ""
-----------------------------------------------------------------------------
(* Properties of the fact-check stage *)

\* the run is configured to use the cache and the cached pair is supplied
CacheSupplied ==
  /\ "_use_search_cache" \in DOMAIN state
  /\ state["_use_search_cache"]
  /\ {"_cached_search_queries", "_cached_search_results"} \subseteq DOMAIN state

\* the calls of the fact-check stage on record
FactCheckRuns == {i \in DOMAIN writes : writes[i].node = "fact_checker" /\ NonEmptyRun}

SynthesisSucceeded(i) == ~Failed(hist[i].backend.synth)

\* C18: with the cache in use and the cached pair supplied, the stage makes
\* no query-generation call and no search call, gives the cached pair as it
\* is to the synthesis, and makes the synthesis call only.
C18_CachedSkipsCalls ==
  \A i \in FactCheckRuns :
    CacheSupplied =>
      /\ writes[i].searched = <<>>
      /\ writes[i].gen = 1
      /\ writes[i].prompt = <<[content |-> state["content"],
                               search_queries |-> state["_cached_search_queries"],
                               search_results |-> state["_cached_search_results"]]>>
      /\ SynthesisSucceeded(i) =>
           /\ writes[i].update["search_queries"] = state["_cached_search_queries"]
           /\ writes[i].update["search_results"] = state["_cached_search_results"]
           /\ writes[i].update["fact_check_results"] = hist[i].backend.synth.text

\* a cached run whose query generation would have given four queries and
\* whose provider would have answered returned the cached pair
C18_Witness ==
  /\ FactCheckRuns # {}
  /\ CacheSupplied
  /\ state["_cached_search_queries"] # <<>>
  /\ hist[1].backend.queries.kind = "lines"
  /\ Len(hist[1].backend.queries.lines) = 4
  /\ hist[1].backend.searches = Cited(4)
  /\ SynthesisSucceeded(1)
  /\ writes[1].update["search_results"] = state["_cached_search_results"]
  /\ calls = [gen |-> 1, score |-> 0, search |-> 0]

\* C19: two runs of the same content with the cache supplied, under
\* different behaviours of the generation backend, end with the same
\* search_queries and the same search_results, and neither calls the search
\* provider.
C19_CachedRunsAgree ==
  (pc = "rechecked" /\ CacheSupplied /\ NonEmptyRun) =>
    /\ writes[1].update["search_queries"] = writes[2].update["search_queries"]
    /\ writes[1].update["search_results"] = writes[2].update["search_results"]
    /\ writes[1].searched = <<>> /\ writes[2].searched = <<>>

\* What does hold: no cached run calls the search provider, and its
\* search_queries and search_results are the cached pair when its synthesis
\* call succeeded and both empty when it failed.
C19_CachedPairOrEmpty ==
  \A i \in FactCheckRuns :
    CacheSupplied =>
      /\ writes[i].searched = <<>>
      /\ calls.search = 0
      /\ IF SynthesisSucceeded(i)
         THEN /\ writes[i].update["search_queries"] = state["_cached_search_queries"]
              /\ writes[i].update["search_results"] = state["_cached_search_results"]
         ELSE /\ writes[i].update["search_queries"] = <<>>
              /\ writes[i].update["search_results"] = <<>>

\* the runs without the cache whose query generation gave a text
LiveRuns ==
  {i \in FactCheckRuns : ~CacheSupplied /\ hist[i].backend.queries.kind = "lines"}

\* the trimmed non-blank lines of the generated text
GeneratedLines(i) == QueryLines(hist[i].backend.queries.lines)

FirstThree(queries) == SubSeq(queries, 1, IF Len(queries) < 3 THEN Len(queries) ELSE 3)

\* the results of the provider for each query, in query order
RECURSIVE ResultsInOrder(_, _)
ResultsInOrder(queries, provider) ==
  IF queries = <<>> THEN <<>>
  ELSE perform_web_search(Head(queries), 3, provider[Head(queries)])
         \o ResultsInOrder(Tail(queries), provider)

\* C20: without the cache the stage calls the search provider once for each
\* of the first 3 generated queries, in order, and for no other query, each
\* with a cap of 3 results; the results are the per-query results
\* concatenated in query order, at most 9.
C20_SearchesFirstThree ==
  \A i \in LiveRuns :
    LET first == FirstThree(GeneratedLines(i))
        expected == ResultsInOrder(first, hist[i].backend.searches)
    IN  /\ writes[i].searched =
             [k \in 1..Len(first) |-> [query |-> first[k], num_results |-> 3]]
        /\ \A q \in Range(first) :
             Len(perform_web_search(q, 3, hist[i].backend.searches[q])) <= 3
        /\ writes[i].prompt[1].search_results = expected
        /\ Len(expected) <= 9
        /\ SynthesisSucceeded(i) =>
             /\ writes[i].update["search_results"] = expected
             /\ writes[i].update["search_queries"] = GeneratedLines(i)

\* four queries were generated, the provider had four citations for each,
\* and the stage returned the nine results of the first three
C20_Witness ==
  /\ LiveRuns # {}
  /\ 1 \in LiveRuns
  /\ Len(GeneratedLines(1)) = 4
  /\ hist[1].backend.searches = Cited(4)
  /\ SynthesisSucceeded(1)
  /\ Len(writes[1].searched) = 3
  /\ Len(writes[1].update["search_results"]) = 9
  /\ writes[1].update["search_results"][4].url = "b/1"
\* the query-generation call of the run was made and failed
QueriesFailed(i) == ~CacheSupplied /\ Failed(hist[i].backend.queries)

\* a generation call of the run failed: the query generation, or the
\* synthesis that follows it
GenerationFailed(i) == QueriesFailed(i) \/ ~SynthesisSucceeded(i)

\* the error of the generation call that failed
FailureText(i) ==
  IF QueriesFailed(i) THEN hist[i].backend.queries.err ELSE hist[i].backend.synth.err

\* the search provider failed for one of the queries the run searched
SearchFailed(i) ==
  /\ i \in LiveRuns
  /\ \E q \in Range(FirstThree(GeneratedLines(i))) : hist[i].backend.searches[q].kind # "ok"

\* ([], [], failure marker embedding err)
Degraded(i, err) ==
  writes[i].update = [search_queries |-> <<>>, search_results |-> <<>>,
                      fact_check_results |-> FactCheckFailedPrefix \o err]

\* C21: an exception raised during query generation, search or synthesis
\* degrades the stage to ([], [], failure marker embedding the error).
C21_AnyExceptionDegrades ==
  \A i \in FactCheckRuns :
    (GenerationFailed(i) \/ SearchFailed(i)) =>
      \E err \in Errors \cup {NoClient.err} : Degraded(i, err)

\* C21 as amended: a failed query-generation or synthesis call degrades the
\* stage to ([], [], failure marker embedding the error), whatever had been
\* obtained before, and the error is logged; a search provider failure does
\* not reach the stage, which then returns its queries and the synthesis.
C21_GenerationFailureDegrades ==
  \A i \in FactCheckRuns :
    IF GenerationFailed(i)
    THEN /\ Degraded(i, FailureText(i))
         /\ \E j \in DOMAIN log :
              /\ log[j].fn = "log_step"
              /\ log[j].step = "fact_checker"
              /\ log[j].error = FailureText(i)
    ELSE /\ writes[i].update["fact_check_results"] = hist[i].backend.synth.text
         /\ i \in LiveRuns => writes[i].update["search_queries"] = GeneratedLines(i)

\* queries were generated and nine results found, then the synthesis call
\* raised: the stage returned the failure triple
C21_Witness ==
  /\ 1 \in LiveRuns
  /\ Len(GeneratedLines(1)) = 4
  /\ hist[1].backend.searches = Cited(4)
  /\ Len(writes[1].prompt[1].search_results) = 9
  /\ ~SynthesisSucceeded(1)
  /\ Degraded(1, "timeout")
\* C22: perform_web_search never raises: with the credentials missing or on
\* a provider error it returns the empty list, and every element it returns
\* has a url and a snippet.
C22_SearchNeverRaises ==
  pc = "searched" =>
    /\ hist[1].backend.kind # "ok" => writes[1].results = <<>>
    /\ \A k \in DOMAIN writes[1].results :
         {"url", "snippet"} \subseteq DOMAIN writes[1].results[k]

\* a completion without citations gave the single content-only result
C22_Witness ==
  /\ pc = "searched"
  /\ hist[1].backend.kind = "ok"
  /\ hist[1].backend.citations = <<>>
  /\ Len(writes[1].results) = 1
  /\ writes[1].results[1].url = "perplexity_search"
  /\ writes[1].results[1].snippet = "found"

\* the provider failed and the call returned the empty list
C22_FailureWitness ==
  /\ pc = "searched"
  /\ hist[1].backend.kind = "raise"
  /\ writes[1].results = <<>>
-----------------------------------------------------------------------------
(* Properties of the verifier *)

\* the calls of the verifier on record, on non-empty content
VerifierRuns == {i \in DOMAIN writes : writes[i].node = "verifier" /\ NonEmptyRun}

UpstreamProbability == IF "manipulation_probability" \in DOMAIN state
                       THEN state["manipulation_probability"] ELSE 0

UpstreamTechniqueList == IF "manipulation_techniques" \in DOMAIN state
                         THEN state["manipulation_techniques"] ELSE <<>>

\* the response text, once its fence is cut off, is a JSON object with the
\* four keys
ValidVerdictText(o) ==
  /\ o.kind = "text"
  /\ VerifierUnfence(o).kind = "dict"
  /\ {"manipulation", "techniques", "disinfo", "explanation"}
       \subseteq DOMAIN VerifierUnfence(o).fields

\* the verdict is rebuilt from the upstream fields, manipulation being m
RebuiltVerdict(i, m) ==
  LET v == writes[i].update["final_result"]
  IN  /\ v["manipulation"] = JBool(m)
      /\ v["techniques"] = JList(UpstreamTechniqueList)
      /\ v["disinfo"] = JList(<<>>)
      /\ v["explanation"].t = "str"

ExplanationHas(i, text) ==
  \E k \in DOMAIN writes[i].update["final_result"]["explanation"].items :
    writes[i].update["final_result"]["explanation"].items[k] = text

\* C23: when the response fails parsing or validation, or the backend call
\* fails, the verdict is rebuilt from the upstream fields with
\* manipulation = (probability >= 0.15) and (techniques non-empty),
\* techniques = the upstream techniques and disinfo = []; on a backend
\* failure the explanation holds the error text.
C23_FallbackVerdict ==
  \A i \in VerifierRuns :
    ~ValidVerdictText(hist[i].backend) =>
      /\ RebuiltVerdict(i, UpstreamProbability >= 15 /\ UpstreamTechniqueList # <<>>)
      /\ Failed(hist[i].backend) => ExplanationHas(i, hist[i].backend.err)

\* What does hold: the same with manipulation = (probability > 0.15) and
\* (techniques non-empty).
C23_FallbackStrict ==
  \A i \in VerifierRuns :
    ~ValidVerdictText(hist[i].backend) =>
      /\ RebuiltVerdict(i, UpstreamProbability > 15 /\ UpstreamTechniqueList # <<>>)
      /\ Failed(hist[i].backend) => ExplanationHas(i, hist[i].backend.err)

\* the scenario: the call raises with probability 0.6 and techniques
\* [fear_appeals] upstream
C23_Scenario ==
  \A i \in VerifierRuns :
    (/\ hist[i].backend = Raise("timeout")
     /\ UpstreamProbability = 60
     /\ UpstreamTechniqueList = <<"fear_appeals">>)
      => /\ RebuiltVerdict(i, TRUE)
         /\ ExplanationHas(i, "timeout")

\* C24: the narrative stage returns exactly one field, narrative, on every
\* path: "" and no backend call when the content is empty, the backend's text
\* when the call succeeded, the fixed failure text followed by the error when
\* it failed (the stage still returns)
NarrativeRuns == {i \in DOMAIN writes : writes[i].node = "narrative_extractor"}

C24_NarrativeOnEveryPath ==
  pc = "narrated" =>
    \A i \in NarrativeRuns :
      LET u == writes[i].update
          o == hist[i].backend
      IN  /\ DOMAIN u = {"narrative"}
          /\ IF Blank(Content(state))
             THEN u.narrative = "" /\ calls.gen = 0
             ELSE IF Failed(o)
             THEN u.narrative = NarrativeFailedPrefix \o o.err
             ELSE u.narrative = o.text /\ calls.gen = 1

C24_Witness ==
  /\ pc = "narrated"
  /\ ~Blank(Content(state))
  /\ Failed(hist[1].backend)
  /\ writes[1].update.narrative = NarrativeFailedPrefix \o "timeout"

C24_EmptyWitness ==
  /\ pc = "narrated"
  /\ "content" \in DOMAIN state /\ state.content = <<>>
  /\ writes[1].update = [narrative |-> ""]
  /\ calls.gen = 0

\* C25: a run emits exactly one pipeline-level event, as its last event: when
\* the run returns it is the completion event (total duration and verdict
\* summary) and every stage has logged before it; when the run raises it
\* carries the error
PipelineEvents == {i \in DOMAIN log : log[i].step = "pipeline_complete"}

\* the step names under which a node logs
StepNames(n) ==
  IF n = "manipulation_classifier"
  THEN {"manipulation_classifier", "manipulation_classifier_binary"}
  ELSE {n}

RunEnded == pc \in {"returned", "raised"}

C25_OnePipelineEvent ==
  /\ ~RunEnded => PipelineEvents = {}
  /\ RunEnded => PipelineEvents = {Len(log)}
  /\ pc = "returned" =>
       /\ log[Len(log)].fn = "log_pipeline_complete"
       /\ log[Len(log)].error = ""
       /\ \A n \in Nodes : \E i \in 1..(Len(log) - 1) : log[i].step \in StepNames(n)
  /\ pc = "raised" =>
       /\ log[Len(log)].fn = "log_step"
       /\ log[Len(log)].error # ""

\* a run on non-empty content returned: its stage events, then the pipeline event
C25_Witness ==
  /\ pc = "returned"
  /\ NonEmptyRun
  /\ Len(log) >= 5
  /\ PipelineEvents = {Len(log)}

\* the graph raised on a content without strip(): one event, with the error
C25_RaisedWitness ==
  /\ pc = "raised"
  /\ ~HasStrip(Content(state))
  /\ log = <<Event("log_step", "pipeline_complete", ContentId(state), "AttributeError")>>

\* C26: the update of each stage holds only that stage's own fields, and
\* content and content_id stay as they were when the first stage started,
\* up to the final state
OwnFields(n) ==
  CASE n = "manipulation_classifier" ->
         {"manipulation_probability", "manipulation_techniques", "is_manipulation",
          "manipulation_score"}
    [] n = "narrative_extractor" -> {"narrative"}
    [] n = "fact_checker" -> {"search_queries", "search_results", "fact_check_results"}
    [] n = "verifier" -> {"final_result"}

InputFields == {"content", "content_id"}

InputKept ==
  pc # "call" =>
    \A f \in InputFields :
      /\ f \in DOMAIN state <=> f \in DOMAIN state'
      /\ f \in DOMAIN state => state'[f] = state[f]

C26_OwnFieldsOnly ==
  /\ [](\A i \in DOMAIN writes : DOMAIN writes[i].update \subseteq OwnFields(writes[i].node))
  /\ [][InputKept]_vars

\* a run on non-empty content returned with the fields of all four stages
C26_Witness ==
  /\ pc = "returned"
  /\ NonEmptyRun
  /\ OutputFields \subseteq DOMAIN state
  /\ state["content"] = <<"x">>

\* C27: no stage retries a failed call. One fact_checker invocation makes at
\* most 2 generation calls and 3 search calls, none after its query
\* generation failed, and one search per generated query entry, failed or
\* not; one invocation of any other stage makes at most 1 backend call.
GeneratedEntries(o) == IF Failed(o.queries) THEN <<>> ELSE QueryLines(o.queries.lines)

Issued(w) == [i \in DOMAIN w.searched |-> w.searched[i].query]

C27_NoRetries ==
  \A i \in DOMAIN writes :
    LET w == writes[i]
        o == hist[i].backend
    IN  IF w.node = "fact_checker"
        THEN /\ calls.gen <= 2 /\ calls.search <= 3 /\ calls.score = 0
             /\ calls.search = Len(w.searched)
             /\ (~UseCache(state) /\ Failed(o.queries)) => calls.gen <= 1 /\ calls.search = 0
             /\ (NonEmptyRun /\ ~UseCache(state)) => Issued(w) = Take(GeneratedEntries(o), 3)
             /\ (UseCache(state) \/ ~NonEmptyRun) => w.searched = <<>>
        ELSE calls.gen + calls.score + calls.search <= 1

\* a fact_checker invocation whose search for "b" failed: "b" was searched once
C27_Witness ==
  /\ writes # <<>>
  /\ writes[1].node = "fact_checker"
  /\ NonEmptyRun
  /\ hist[1].backend.searches[<<"b">>].kind = "raise"
  /\ Issued(writes[1]) = << <<"b">>, <<"a">> >>
  /\ calls = [gen |-> 2, score |-> 0, search |-> 2]

\* C28: each backend client (Generation, Scoring, Search) is constructed at
\* most once in the process
GenerationClients == clients.gemini["manipulation_classifier"] + clients.gemini["narrative_extractor"]
                       + clients.gemini["fact_checker"] + clients.gemini["verifier"]

C28_ClientsBuiltOnce ==
  /\ GenerationClients <= 1
  /\ clients.perplexity <= 1
  /\ \A k \in DOMAIN MODELS : clients.pipelines[k] <= 1

\* What does hold: each module constructs its own Gemini client once, and
\* each scoring pipeline is constructed once.
C28_OncePerModule ==
  /\ \A m \in GeminiModules : clients.gemini[m] <= 1
  /\ \A k \in DOMAIN MODELS : clients.pipelines[k] <= 1

\* one fact_checker invocation has constructed two Perplexity clients
C28_Scenario ==
  /\ step = 1
  /\ writes[1].node = "fact_checker"
  /\ clients.perplexity = 2

\* C29: the metrics file only grows, and a run ends the same way whether or
\* not the sink can be created and written: no run on a string content
\* raises before the graph has produced its verdict
IsPrefix(a, b) == Len(a) <= Len(b) /\ SubSeq(b, 1, Len(a)) = a

AppendOnly == IsPrefix(MetricsFile(log_dir, log), MetricsFile(log_dir', log'))

RaisedBeforeVerdict == pc = "raised" /\ HasStrip(Content(state)) /\ ~HasVerdict

C29_SinkFailureHarmless ==
  /\ [][AppendOnly]_vars
  /\ [](~RaisedBeforeVerdict)

\* What does hold: the file is append-only, and once the logger exists a
\* failing write changes nothing in the run.
C29_AppendOnly == [][AppendOnly]_vars

C29_WriteFailureHarmless ==
  log_dir # "read_only" => ~RaisedBeforeVerdict

\* a run whose writes all failed has returned its verdict
C29_FullDiskRun ==
  /\ log_dir = "full"
  /\ pc = "returned"
  /\ NonEmptyRun
  /\ HasVerdict

\* C30: a request whose content is missing, not a string, empty,
\* whitespace-only or longer than 10000 characters is answered 422 and the
\* analysis is not invoked; the analysis starts only on a content that is
\* non-empty after trimming
Missing == "content" \notin DOMAIN state

NonStringContent == ~Missing /\ state["content"].t # "str"

Characters == IF Missing \/ NonStringContent THEN <<>> ELSE state["content"].items

WhitespaceOnly == \A i \in DOMAIN Characters : Characters[i].c = " "

TooLong == RunLen(Characters) > 10000

Invoked == \E i \in DOMAIN hist : hist[i].node = "analyze_content"

C30_InvalidContentRejected ==
  pc = "responded" =>
    /\ (Missing \/ NonStringContent \/ Characters = <<>> \/ WhitespaceOnly \/ TooLong) =>
          writes[1].status = 422 /\ ~Invoked
    /\ Invoked => ~WhitespaceOnly

\* a request with one blank as its content was answered 422
C30_Witness ==
  /\ pc = "responded"
  /\ state = [content |-> JStr(<<Run(" ", 1)>>)]
  /\ writes[1].status = 422
  /\ ~Invoked

\* a request with 10000 characters was analysed
C30_LimitWitness ==
  /\ pc = "responded"
  /\ ~Missing /\ ~NonStringContent
  /\ RunLen(Characters) = 10000
  /\ Invoked
  /\ writes[1].status = 200

\* the calls of the scoring-backend variant with the single-score kind
\* whose backend returned a list of results
SingleScoreRuns ==
  {i \in ScoringRuns :
     /\ ModelKey(state) = "lapa-llm"
     /\ Backend.kind = "results"}

\* the labels by which a backend names the non-manipulative class
NonManipulativeLabels == {"NOT_MANIPULATIVE", "non-manipulative", "0"}

\* the backend's first result names the non-manipulative class
FirstIsNonManipulative ==
  /\ Backend.results # <<>>
  /\ "label" \in DOMAIN Backend.results[1]
  /\ Backend.results[1].label \in NonManipulativeLabels

\* the backend's raw score: the score of its first result
RawScore ==
  IF Backend.results = <<>> \/ "score" \notin DOMAIN Backend.results[1] THEN 0
  ELSE Backend.results[1].score

\* the configured override if given, otherwise the default of the kind
ConfiguredThreshold ==
  IF "_manipulation_threshold" \in DOMAIN state THEN state["_manipulation_threshold"]
  ELSE IF ModelKey(state) = "modern-bert" THEN 15 ELSE 50

\* C31: with the single-score kind manipulation_score is the raw score,
\* replaced by 1 - raw exactly when the label names the non-manipulative
\* class; the probability equals the score, the techniques are empty, and
\* with either kind is_manipulation = (manipulation_score >= threshold),
\* the threshold being the override if given and else 0.5 for the
\* single-score kind and 0.15 for the multi-label kind
C31_SingleScoreVerdict ==
  /\ \A i \in SingleScoreRuns :
       LET u == writes[i].update
       IN  /\ u.manipulation_score =
                 IF FirstIsNonManipulative THEN 100 - RawScore ELSE RawScore
           /\ u.manipulation_probability = u.manipulation_score
           /\ u.manipulation_techniques = <<>>
  /\ \A i \in ScoringRuns :
       (ModelKey(state) \in {"lapa-llm", "modern-bert"} /\ Backend.kind = "results") =>
          writes[i].update.is_manipulation =
             (writes[i].update.manipulation_score >= ConfiguredThreshold)

\* a non-manipulative label with raw score 0.9 was turned into 0.1 and,
\* with no override, judged against 0.5
C31_Witness ==
  /\ SingleScoreRuns # {}
  /\ FirstIsNonManipulative
  /\ RawScore = 90
  /\ "_manipulation_threshold" \notin DOMAIN state
  /\ writes[1].update.manipulation_score = 10
  /\ ~writes[1].update.is_manipulation

\* a positive label at exactly the default threshold of the multi-label
\* kind counted as manipulation
C31_DefaultWitness ==
  /\ ScoringRuns # {}
  /\ ModelKey(state) = "modern-bert"
  /\ Backend.kind = "results"
  /\ "_manipulation_threshold" \notin DOMAIN state
  /\ writes[1].update.manipulation_score = 15
  /\ writes[1].update.is_manipulation

\* C32: in a run that returned each of the four nodes executed exactly
\* once, so final_result was written by one verifier execution and one
\* verifier metrics event was emitted
C32_EachNodeOnce ==
  pc = "returned" =>
    /\ \A n \in Nodes : Cardinality(Executions(n)) = 1
    /\ Cardinality(VerifierEvents) = 1

\* the three upstream nodes executed once each in the run that returned
C32_UpstreamOnce ==
  pc = "returned" =>
    \A n \in Nodes \ {"verifier"} : Cardinality(Executions(n)) = 1

\* the verifier executed twice in the run that returned, each time
\* emitting a verifier metrics event
C32_VerifierTwice ==
  pc = "returned" =>
    /\ Cardinality(Executions("verifier")) = 2
    /\ Cardinality(VerifierEvents) = 2

\* C33: every execution of the fact-check stage in a graph run is in the
\* first superstep, before the narrative stage has completed, on a state
\* without narrative, and the query-generation prompt it builds is the one
\* built without a narrative
C33_FactCheckBeforeNarrative ==
  \A i \in Executions("fact_checker") :
    /\ hist[i].step = 1
    /\ "narrative_extractor" \notin hist[i].completed
    /\ "narrative" \notin hist[i].saw
    /\ hist[i].narrative = ""
    /\ build_query_generation_prompt(Content(state), hist[i].narrative)
          = build_query_generation_prompt(Content(state), "")

\* a run on non-empty content returned with a non-empty narrative that
\* the fact-check stage, which had executed, did not see
C33_Witness ==
  /\ pc = "returned"
  /\ NonEmptyRun
  /\ Executions("fact_checker") # {}
  /\ "narrative" \in DOMAIN state
  /\ state["narrative"] # ""
  /\ build_query_generation_prompt(Content(state), state["narrative"]).narrative_section # <<>>

\* the verdict in the state is one the verifier rebuilt from the
\* classifier's outputs
FallbackBuilt ==
  /\ HasVerdict
  /\ state["final_result"].explanation.t = "str"
  /\ state["final_result"].explanation.items # <<>>
  /\ state["final_result"].explanation.items[1] \in {AnalysisDone, VerificationErrors}

ClassifiedProbability == DictGet(state, "manipulation_probability", 0)

ClassifiedTechniques == DictGet(state, "manipulation_techniques", <<>>)

\* no threshold override, and the classifier variant and backend kind
\* the graph was built with
DefaultConfiguration ==
  /\ "_manipulation_threshold" \notin DOMAIN state
  /\ graph.use_binary_classifier => ModelKey(state) \in DOMAIN MODELS

\* C34: under every default configuration a rebuilt verdict has
\* manipulation = (techniques non-empty): non-empty techniques come with a
\* probability above 0.15, and with the single-score backend the
\* techniques are empty and the flag is false
C34_FallbackFlagIsTechniques ==
  (NonEmptyRun /\ DefaultConfiguration /\ FallbackBuilt) =>
    /\ state["final_result"].manipulation = JBool(ClassifiedTechniques # <<>>)
    /\ state["final_result"].techniques = JList(ClassifiedTechniques)
    /\ ClassifiedTechniques # <<>> => ClassifiedProbability > 15
    /\ (graph.use_binary_classifier /\ ModelKey(state) = "lapa-llm") =>
          /\ ClassifiedTechniques = <<>>
          /\ state["final_result"].manipulation = JBool(FALSE)

\* with the multi-label backend a category scored 0.9 made the rebuilt
\* verdict one of manipulation
C34_Witness ==
  /\ NonEmptyRun /\ DefaultConfiguration /\ FallbackBuilt
  /\ graph.use_binary_classifier
  /\ ModelKey(state) = "modern-bert"
  /\ ClassifiedProbability = 90
  /\ ClassifiedTechniques # <<>>
  /\ state["final_result"].manipulation = JBool(TRUE)

\* with the single-score backend a score of 0.9 left the rebuilt verdict
\* one of no manipulation
C34_SingleScoreWitness ==
  /\ NonEmptyRun /\ DefaultConfiguration /\ FallbackBuilt
  /\ graph.use_binary_classifier
  /\ ModelKey(state) = "lapa-llm"
  /\ ClassifiedProbability = 90
  /\ state["final_result"].manipulation = JBool(FALSE)

\* the classifier part of C34 alone, on every output of the two classifier
\* variants of the graph with no threshold override: techniques are a list,
\* non-empty only with a probability above 0.15, and empty with the
\* single-score backend
C34_TechniquesAboveFallbackThreshold ==
  \A i \in ClassifierWrites :
    (/\ writes[i].node \in {"manipulation_classifier", "manipulation_classifier_binary"}
     /\ "_manipulation_threshold" \notin DOMAIN state
     /\ "manipulation_techniques" \in DOMAIN writes[i].update) =>
       LET u == writes[i].update
       IN  /\ u.manipulation_techniques # <<>> =>
                FallbackManipulation(u.manipulation_probability, u.manipulation_techniques)
           /\ (writes[i].node = "manipulation_classifier_binary"
                 /\ ModelKey(state) = "lapa-llm") => u.manipulation_techniques = <<>>

\* every node of the graph has executed, none is scheduled, and the state
\* holds the verdict
AllExecuted ==
  /\ \A n \in Nodes : Executions(n) # {}
  /\ tasks = {}
  /\ HasVerdict

\* C35: a run on a string content terminates with invoke returning the
\* final state, every node having executed and the verifier having
\* produced final_result
C35_RunReturnsFinalState ==
  HasStrip(Content(state)) => <>(pc = "returned" /\ AllExecuted)

\* What does hold: every run ends, invoke returning or raising
C35_RunEnds == <>RunEnded

\* and a run on a string content ends with every node executed and the
\* verdict in the state, whether invoke then returns it or raises
C35_EveryNodeExecutes ==
  HasStrip(Content(state)) => <>(RunEnded /\ AllExecuted)

\* the candidates, by position, whose adapter directory exists and whose
\* client loads (or is loaded already)
Usable(i) ==
  {k \in DOMAIN Candidates :
     /\ AdapterDir(Candidates[k], hist[i].task) \in state.models_dir
     /\ Candidates[k] \in state.loadable}

\* the lowest of a non-empty set of positions
First(ks) == CHOOSE k \in ks : \A j \in ks : k <= j

LoraCalls == {i \in DOMAIN hist : hist[i].node \in
                {"manipulation_classifier_lora", "narrative_extractor_lora"}}

\* C36: a LoRA stage generates with the first candidate, in the order
\* mamaylm, lapa, lapa_small, whose adapter directory exists and whose
\* client loads, and with the prompt-based path only when there is none
C36_FirstUsableAdapterUsed ==
  \A i \in LoraCalls :
    /\ Usable(i) # {} => hist[i].used = Candidates[First(Usable(i))]
    /\ hist[i].used = "prompt" => Usable(i) = {}

\* What does hold: no LoRA stage call on non-empty content generates
\* anything, with an adapter or with the prompt
C36_NothingGenerated ==
  \A i \in LoraCalls :
    /\ hist[i].used = "None"
    /\ calls.gen = 0
    /\ \E j \in DOMAIN log : log[j].step = hist[i].node /\ log[j].error = "AttributeError"

\* and the client the loop holds when it stops is the first usable one of
\* mamaylm and lapa; lapa_small is never selected
C36_SmallNeverSelected ==
  \A i \in LoraCalls :
    LET usable == Usable(i) \cap {1, 2}
    IN  hist[i].selected = IF usable = {} THEN "None" ELSE Candidates[First(usable)]

\* the scenario: only the lapa_small adapter of the task exists and loads
C36_Scenario ==
  /\ LoraCalls # {}
  /\ Usable(1) = {3}
  /\ hist[1].selected = "None"
  /\ hist[1].used = "None"

====
